---- MODULE Spec2Model ----
(***************************************************************************)
(* bt.cc: a behavior tree whose nodes hold no per-entity data.  The model  *)
(* follows src/Source/bt.cc and src/Source/bt.h: the node tick protocol,    *)
(* the priority memo kept on the node, the mixed queue (flat vector or     *)
(* binary heap) of the composite nodes, the composite scheduling loops and *)
(* the per-entity tree blobs.                                              *)
(*                                                                         *)
(* One root Tick is one action.  The tick walks the tree recursively; the  *)
(* operators below return the SET of machine records a call can end in,    *)
(* one for every choice of the values the user code supplies while the     *)
(* call runs (the status a leaf's Update returns, the value a leaf's       *)
(* Priority returns, the value the random generator draws).                *)
(***************************************************************************)
EXTENDS Integers, Sequences, FiniteSets, TLC

VARIABLES
    tree,             \* the built tree: kind, children and leaf behaviour per node id
    stdlib,           \* the standard library the build links: its heap algorithms
    treeBlob,         \* RootNode::blob, the bound entity's store, or None
    ctxSeq,           \* Context::seq
    stores,           \* one tree blob per entity: node id -> NodeBlob
    priorityCache,    \* Node::priorityCurrentTick / priorityCurrentTickSeq, per node
    queues,           \* InternalPriorityCompositeNode::p, areAllEqual and q, per node
    log,              \* the calls made during the last root Tick, in order
    rootStatus,       \* the status the last root Tick returned
    lastUpdate,       \* history: per entity and node, the last Update result and its seq
    ticks,            \* number of root ticks issued so far
    blob,             \* a tree blob used on its own: its backend and its memory
    made,             \* the last call of Make<B> on blob and what it returned
    now,              \* std::chrono::steady_clock::now(), an integer clock
    build             \* a Builder at work: the nodes made so far, its stack and counters

vars == <<tree, stdlib, treeBlob, ctxSeq, stores, priorityCache, queues, log,
          rootStatus, lastUpdate, ticks, blob, made, now, build>>

----------------------------------------------------------------------------
(* Bounds of the model *)

MaxSeq == 1
MaxTicks == 2
MaxDraws == 4
(* the clock runs from 0 to MaxTime; a tree of the timed decorators is     *)
(* ticked at most MaxTimedTicks times                                      *)
MaxTime == 3
MaxTimedTicks == 4

(* a build makes at most MaxBuildNodes nodes, the root included *)
MaxBuildNodes == 5
(* a tick loop runs at most MaxLoops times *)
MaxLoops == 3
(* the template arguments of FixedTreeBlob<NumNodes, MaxSizeNodeBlob> *)
NumNodes == 2
MaxSizeNodeBlob == 2

None == "none"

----------------------------------------------------------------------------
(* Status, bt.h *)

UNDEFINED == "UNDEFINED"
RUNNING == "RUNNING"
SUCCESS == "SUCCESS"
FAILURE == "FAILURE"

RSF == {RUNNING, SUCCESS, FAILURE}

----------------------------------------------------------------------------
(* Trees.  Node ids are 1..N in build order, the root is node 1.  kids[n]  *)
(* lists the children of n in declaration order; child index i of the     *)
(* code (0-based) is kids[n][i+1].  For a leaf, may[n] is the set of       *)
(* statuses its user-written Update can return and pris[n] the set of      *)
(* values its user-written Priority can return.                            *)

CompositeKinds == {"Sequence", "Selector", "Parallel", "RandomSelector",
                   "StatefulSequence", "StatefulSelector", "StatefulParallel",
                   "StatefulRandomSelector"}
StatefulKinds == {"StatefulSequence", "StatefulSelector", "StatefulParallel",
                  "StatefulRandomSelector"}
RandomKinds == {"RandomSelector", "StatefulRandomSelector"}
SequenceKinds == {"Sequence", "StatefulSequence"}
SelectorKinds == {"Selector", "StatefulSelector"}
ParallelKinds == {"Parallel", "StatefulParallel"}
LeafKinds == {"Action", "Condition"}
ForceKinds == {"ForceSuccess", "ForceFailure"}
SingleKinds == {"Root", "Invert", "ForceSuccess", "ForceFailure",
                "ConditionalRun", "Repeat", "Timeout", "Delay", "Retry"}

(* Root -> one composite of the given kind -> Len(mays) leaf actions *)
Flat(kind, mays, prs) ==
    LET k == Len(mays) IN
    [kind |-> <<"Root", kind>> \o [i \in 1..k |-> "Action"],
     kids |-> <<(<<2>>), [i \in 1..k |-> i + 2]>> \o [i \in 1..k |-> <<>>],
     may  |-> <<{}, {}>> \o mays,
     pris |-> <<{}, {}>> \o prs]

(* Root -> composite[ decorator(leaf), leaf ] *)
Decorated(kind, deco, mays, prs) ==
    [kind |-> <<"Root", kind, deco, "Action", "Action">>,
     kids |-> <<(<<2>>), <<3, 5>>, (<<4>>), <<>>, <<>>>>,
     may  |-> <<{}, {}, {}, mays[1], mays[2]>>,
     pris |-> <<{}, {}, {}, prs[1], prs[2]>>]

(* Root -> decorator -> decorator -> leaf *)
Chain(outer, inner, may, prs) ==
    [kind |-> <<"Root", outer, inner, "Action">>,
     kids |-> <<(<<2>>), (<<3>>), (<<4>>), <<>>>>,
     may  |-> <<{}, {}, {}, may>>,
     pris |-> <<{}, {}, {}, prs>>]

(* Root -> decorator with its constructor arguments -> leaf.  arg[n] is   *)
(* RepeatNode::n, RetryNode::maxRetries or the duration of a Timeout or a  *)
(* Delay, arg2[n] is RetryNode::interval, both in ticks of the clock.      *)
Timed(kind, arg, arg2, may) ==
    [kind |-> <<"Root", kind, "Action">>,
     kids |-> <<(<<2>>), (<<3>>), <<>>>>,
     may  |-> <<{}, {}, may>>,
     pris |-> <<{}, {}, {1}>>,
     arg  |-> <<0, arg, 0>>,
     arg2 |-> <<0, arg2, 0>>]

(* Root -> ConditionalRun(condition, child): kids lists the child first,   *)
(* then the condition the node holds (ConditionalRunNode::condition)       *)
Conditional(mayCondition, mayChild) ==
    [kind |-> <<"Root", "ConditionalRun", "Action", "Condition">>,
     kids |-> <<(<<2>>), <<3, 4>>, <<>>, <<>>>>,
     may  |-> <<{}, {}, mayChild, mayCondition>>,
     pris |-> <<{}, {}, {1}, {1}>>]

(* Root -> decorator -> composite[leaf, leaf] *)
Over(deco, inner, mays, prs) ==
    [kind |-> <<"Root", deco, inner, "Action", "Action">>,
     kids |-> <<(<<2>>), (<<3>>), <<4, 5>>, <<>>, <<>>>>,
     may  |-> <<{}, {}, {}, mays[1], mays[2]>>,
     pris |-> <<{}, {}, {}, prs[1], prs[2]>>]

(* Root -> outer[ inner[leaf, leaf], leaf ] *)
Nested(outer, inner, mays, prs) ==
    [kind |-> <<"Root", outer, inner, "Action", "Action", "Action">>,
     kids |-> <<(<<2>>), <<3, 6>>, <<4, 5>>, <<>>, <<>>, <<>>>>,
     may  |-> <<{}, {}, {}, mays[1], mays[2], mays[3]>>,
     pris |-> <<{}, {}, {}, prs[1], prs[2], prs[3]>>]

One == {1}
OneTwo == {1, 2}

(* a scenario: a built tree, the library of the build, the entities ticked *)
Sc(t, lib, ents) == [tree |-> t, stdlib |-> lib, ents |-> ents]

Gnu == "libstdc++"
Llvm == "libc++"
E1 == {"e1"}
E12 == {"e1", "e2"}
Zero == {0}
Three == {3}
Two == {2}
OneThree == {1, 3}
S1 == {SUCCESS}
SF == {SUCCESS, FAILURE}
F1 == {FAILURE}

(* the plain and the stateful composites over three actions of default priority *)
PlainScenarios ==
    { Sc(Flat(k, <<RSF, RSF, RSF>>, <<One, One, One>>), Gnu, E1)
      : k \in {"Sequence", "Selector", "Parallel",
               "StatefulSequence", "StatefulSelector", "StatefulParallel"} }

(* children with dynamic priorities, three and four of them *)
PriorityScenarios ==
    { Sc(Flat(k, <<RSF, SF, SF>>, <<OneTwo, OneTwo, One>>), Gnu, E1)
      : k \in {"Sequence", "Selector", "StatefulSelector"} }
    \cup
    { Sc(Flat("Parallel", <<S1, S1, S1, S1>>, <<OneTwo, OneTwo, OneTwo, OneTwo>>), lib, E1)
      : lib \in {Gnu, Llvm} }

(* weighted random selection, with zero weights *)
RandomScenarios ==
    { Sc(Flat(k, <<SF, RSF, SF>>, <<Zero, One, Three>>), Gnu, E1)
      : k \in {"RandomSelector", "StatefulRandomSelector"} }
    \cup
    { Sc(Flat(k, <<RSF, RSF>>, <<{0, 1}, One>>), Gnu, E1)
      : k \in {"RandomSelector", "StatefulRandomSelector"} }

(* decorators and nested composites *)
DecoratorScenarios ==
    { Sc(Decorated("Sequence", "ForceSuccess", <<RSF, RSF>>, <<One, One>>), Gnu, E1),
      Sc(Decorated("Selector", "ForceFailure", <<RSF, RSF>>, <<One, One>>), Gnu, E1),
      Sc(Decorated("Parallel", "Invert", <<RSF, RSF>>, <<One, One>>), Gnu, E1),
      Sc(Chain("Invert", "Invert", RSF, One), Gnu, E1),
      Sc(Nested("Selector", "Sequence", <<RSF, SF, SF>>, <<OneTwo, One, OneTwo>>), Gnu, E1),
      Sc(Nested("Sequence", "StatefulSequence", <<RSF, RSF, RSF>>, <<One, One, One>>), Gnu, E1),
      Sc(Nested("Selector", "StatefulSequence", <<S1, {RUNNING, SUCCESS}, S1>>,
                <<Two, One, One>>), Gnu, E1),
      Sc(Decorated("Selector", "Invert", <<SF, S1>>, <<OneTwo, One>>), Gnu, E1),
      Sc(Over("ForceSuccess", "StatefulSequence", <<S1, {RUNNING, SUCCESS}>>, <<One, One>>),
         Gnu, E1) }

(* one tree ticked for two entities *)
EntityScenarios ==
    { Sc(Flat("Selector", <<SF, SF>>, <<OneThree, Two>>), Gnu, E12),
      Sc(Flat("StatefulSequence", <<RSF, SF>>, <<One, One>>), Gnu, E12) }

(* the decorators that count and that read the clock, and ConditionalRun *)
TimedScenarios ==
    { Sc(Timed("Repeat", n, 0, RSF), Gnu, E1) : n \in {0, 1, 2, -1} }
    \cup
    { Sc(Timed("Retry", a[1], a[2], RSF), Gnu, E1) : a \in {<<0, 0>>, <<1, 2>>, <<-1, 1>>} }
    \cup
    { Sc(Timed("Timeout", d, 0, RSF), Gnu, E1) : d \in {0, 1} }
    \cup
    { Sc(Timed("Delay", d, 0, RSF), Gnu, E1) : d \in {0, 1, 2} }
    \cup
    { Sc(Conditional(SF, RSF), Gnu, E1) }

Scenarios ==
    PlainScenarios \cup PriorityScenarios \cup RandomScenarios
    \cup DecoratorScenarios \cup EntityScenarios

N == Len(tree.kind)
Nodes == 1..N
Kind(n) == tree.kind[n]
NumKids(n) == Len(tree.kids[n])
Child(n, i) == tree.kids[n][i + 1]
IsStateful(n) == Kind(n) \in StatefulKinds
IsComposite(n) == Kind(n) \in CompositeKinds

----------------------------------------------------------------------------
(* The call log.  Every entry is a record of one shape:                    *)
(*   ev  what happened, n  the node it happened on, st  a status or "-",   *)
(*   x, y  numbers (a running flag, a child index, a priority, ...)        *)
(*   "Tick" n, x = running before     "TickEnd" n, st, x = running after   *)
(*   "OnEnter" n                      "OnTerminate" n, st                  *)
(*   "Update" n                       "UpdateRet" n, st, x = its "Update"  *)
(*   "Priority" n, x = value                                              *)
(*   "Memo" n, x = value, st = the entity whose tick computed it,          *)
(*             y = 1 iff that is the entity now bound                      *)
(*   "Consider" n, x = child index, y = priority                           *)
(*   "Enqueue" n, x = areAllEqual     "Pop" / "Draw" n, x = child index    *)
(*   "Skip" n, x = child index                                             *)
(*   "Clock" n, x = the value steady_clock::now() gave to Update of n      *)
(*   "Throw" 1, st = the text of the exception that left the root Tick     *)

Ev2(ev, n, st, x, y) == [ev |-> ev, n |-> n, st |-> st, x |-> x, y |-> y]
Ev(ev, n, st, x) == Ev2(ev, n, st, x, 0)
Emit2(m, ev, n, st, x, y) == [m EXCEPT !.log = Append(@, Ev2(ev, n, st, x, y))]
Emit(m, ev, n, st, x) == Emit2(m, ev, n, st, x, 0)

----------------------------------------------------------------------------
(* Tree blobs (bt.cc ITreeBlob::Make, DynamicTreeBlob).  A store maps a    *)
(* node id to its blob; exist is DynamicTreeBlob::e.                       *)

(* NodeBlob's member initialisers; st is InternalStatefulCompositeNode::Blob::st, *)
(* cnt is RepeatNode::Blob::cnt and RetryNode::Blob::cnt, the time points are     *)
(* those of TimeoutNode::Blob, DelayNode::Blob and RetryNode::Blob (a default     *)
(* constructed time_point is the clock's epoch)                                  *)
NodeBlob ==
    [exist |-> FALSE, running |-> FALSE, lastStatus |-> UNDEFINED, lastSeq |-> 0,
     st |-> <<>>, cnt |-> 0, startAt |-> 0, firstRunAt |-> 0, lastRetryAt |-> 0]

(* OnBlobAllocated: a stateful composite sizes its skip vector, all false *)
OnBlobAllocated(n, b) ==
    IF IsStateful(n) THEN [b EXCEPT !.st = [i \in 1..NumKids(n) |-> FALSE]] ELSE b

Exist(store, id) == store[id].exist

(* ITreeBlob::Make<B>: the existing blob, or a freshly constructed one on   *)
(* which the callback (Node::OnBlobAllocated) has run once                 *)
Make(store, id) ==
    IF Exist(store, id) THEN store
    ELSE [store EXCEPT ![id] = OnBlobAllocated(id, [NodeBlob EXCEPT !.exist = TRUE])]

(* a GetNodeBlobHelper that gets or allocates in every store *)
GetNodeBlobHelperAll(m, n) ==
    [m EXCEPT !.stores = [e \in DOMAIN @ |-> Make(@[e], n)]]

(* Node::GetNodeBlobHelper: get or allocate in the store bound to the root *)
GetNodeBlobHelper(m, n) ==
    [m EXCEPT !.stores[treeBlob] = Make(@, n)]

Blob(m, n) == m.stores[treeBlob][n]

----------------------------------------------------------------------------
(* The two backends of ITreeBlob, byte by byte.  A blob is a record:       *)
(*   backend  "fixed" or "dynamic"                                         *)
(*   buf      FixedTreeBlob::buf, row after row: NumNodes rows of           *)
(*            MaxSizeNodeBlob + 1 bytes                                    *)
(*   m, e     DynamicTreeBlob::m (0 is a null pointer, k > 0 the array     *)
(*            allocated for index k - 1) and DynamicTreeBlob::e            *)
(*   heap     the arrays DynamicTreeBlob allocated, heap[k] for index      *)
(*            k - 1, <<>> where none was allocated                         *)
(*   sz       per node id, sizeof(B) of the record made for it, 0 if none  *)
(* A pointer into buf is the offset of the byte it points to; a pointer    *)
(* into the heap is the name k of the array.  A call returns               *)
(* [b, p, fresh, err]: the blob after it, the pointer, the bool of the     *)
(* pair Make returns, and the text of the exception thrown or "".          *)

RowLen == MaxSizeNodeBlob + 1

(* FixedTreeBlob(): memset(buf, 0, sizeof(buf)); DynamicTreeBlob(): empty *)
NewBlob(backend) ==
    [backend |-> backend,
     buf  |-> IF backend = "fixed" THEN [i \in 1..(NumNodes * RowLen) |-> 0] ELSE <<>>,
     m    |-> <<>>,
     e    |-> <<>>,
     heap |-> <<>>,
     sz   |-> [i \in 1..(NumNodes + 1) |-> 0]]

Zeros(size) == [i \in 1..size |-> 0]

(* writes the bytes v at offset p of buf; a byte past the end of buf is not *)
(* part of the blob                                                        *)
WriteBuf(buf, p, v) ==
    [i \in 1..Len(buf) |-> IF i - 1 >= p /\ i - 1 < p + Len(v) THEN v[i - p] ELSE buf[i]]

(* FixedGet that returns &buf[idx][0] *)
FixedGetAtFlag(idx) == idx * RowLen

(* FixedTreeBlob::Get: &buf[idx][1] *)
FixedGet(idx) == idx * RowLen + 1

(* FixedTreeBlob::Exist: buf[idx][0], with no test of idx: the read of a   *)
(* row past the array gives whatever the memory behind buf holds           *)
FixedExist(b, idx) ==
    IF idx < NumNodes THEN {b.buf[idx * RowLen + 1] # 0} ELSE BOOLEAN

(* FixedTreeBlob::Allocate *)
FixedAllocate(b, idx, size) ==
    IF idx >= NumNodes
    THEN [b |-> b, p |-> 0, fresh |-> FALSE, err |-> "bt: FixedTreeBlob NumNodes not enough"]
    ELSE IF size > MaxSizeNodeBlob
    THEN [b |-> b, p |-> 0, fresh |-> FALSE, err |-> "bt: FixedTreeBlob MaxSizeNodeBlob not enough"]
    ELSE [b |-> [b EXCEPT !.buf = WriteBuf(@, idx * RowLen, <<1>>)],
          p |-> FixedGet(idx), fresh |-> TRUE, err |-> ""]

(* DynamicTreeBlob::Exist *)
DynamicExist(b, idx) == Len(b.e) > idx /\ b.e[idx + 1]

(* DynamicTreeBlob::Get *)
DynamicGet(b, idx) == b.m[idx + 1]

(* std::vector::resize to a larger size, the new elements being v *)
Resize(vec, len, v) == vec \o [i \in 1..(len - Len(vec)) |-> v]

(* DynamicTreeBlob::Allocate *)
DynamicAllocate(b, idx, size) ==
    LET m1 == IF Len(b.m) <= idx THEN Resize(b.m, idx + 1, 0) ELSE b.m
        e1 == IF Len(b.m) <= idx THEN Resize(b.e, idx + 1, FALSE) ELSE b.e
        h1 == IF Len(b.m) <= idx THEN Resize(b.heap, idx + 1, <<>>) ELSE b.heap
        rp == idx + 1
    IN [b |-> [b EXCEPT !.heap = [h1 EXCEPT ![rp] = Zeros(size)],
                        !.m = [m1 EXCEPT ![idx + 1] = rp],
                        !.e = [e1 EXCEPT ![idx + 1] = TRUE]],
        p |-> rp, fresh |-> TRUE, err |-> ""]

(* Exist, Get and Allocate of the backend of b *)
BackendExist(b, idx) ==
    IF b.backend = "fixed" THEN FixedExist(b, idx) ELSE {DynamicExist(b, idx)}
BackendGet(b, idx) ==
    IF b.backend = "fixed" THEN FixedGet(idx) ELSE DynamicGet(b, idx)
BackendAllocate(b, idx, size) ==
    IF b.backend = "fixed" THEN FixedAllocate(b, idx, size) ELSE DynamicAllocate(b, idx, size)

(* ITreeBlob::Make(id, size, cap), the results it can have.  Reserve(cap)  *)
(* changes the capacity of the vectors only.                               *)
MakeRaw(b, id, size) ==
    LET idx == id - 1 IN
    { IF ex THEN [b |-> b, p |-> BackendGet(b, idx), fresh |-> FALSE, err |-> ""]
      ELSE BackendAllocate(b, idx, size)
      : ex \in BackendExist(b, idx) }

(* the bytes of a NodeBlob after B(): running = false,                     *)
(* lastStatus = Status::UNDEFINED (the enumerator 0), lastSeq = 0          *)
DefaultBytes(size) == Zeros(size)

(* writes the bytes v through the pointer p *)
Store(b, p, v) ==
    IF b.backend = "fixed" THEN [b EXCEPT !.buf = WriteBuf(@, p, v)]
    ELSE [b EXCEPT !.heap[p] = v]

(* reads size bytes through the pointer p *)
Load(b, p, size) ==
    IF b.backend = "fixed" THEN SubSeq(b.buf, p + 1, p + size) ELSE b.heap[p]

(* MakeB that constructs the record on every call *)
MakeBConstructAlways(b, id, size, cb) ==
    { IF r.err # "" THEN [r EXCEPT !.b = b] @@ [calls |-> 0]
      ELSE [r EXCEPT !.b = [Store(r.b, r.p, DefaultBytes(size)) EXCEPT !.sz[id] = size]]
           @@ [calls |-> IF cb THEN 1 ELSE 0]
      : r \in MakeRaw(b, id, size) }

(* ITreeBlob::Make<B>(id, cb, cap): placement new and the callback on the  *)
(* first allocation only; calls counts the invocations of cb               *)
MakeB(b, id, size, cb) ==
    { IF r.err # "" THEN [r EXCEPT !.b = b] @@ [calls |-> 0]
      ELSE IF ~r.fresh THEN r @@ [calls |-> 0]
      ELSE [r EXCEPT !.b = [Store(r.b, r.p, DefaultBytes(size)) EXCEPT !.sz[id] = size]]
           @@ [calls |-> IF cb THEN 1 ELSE 0]
      : r \in MakeRaw(b, id, size) }

----------------------------------------------------------------------------
(* The child comparator and the binary heap of q2.  q2 is a                *)
(* std::priority_queue<int, vector<int>, Cmp>; push and pop are the        *)
(* library's push_heap and pop_heap over the vector c (index k of the code *)
(* is c[k+1]).  p is the priority vector the comparator reads.             *)

(* the lambda of InternalPriorityCompositeNode::InternalOnBuild *)
cmp(p, a, b) == p[a + 1] < p[b + 1] \/ a > b

RECURSIVE PushHeap(_, _, _, _, _)
PushHeap(c, holeIndex, topIndex, value, p) ==
    LET parent == (holeIndex - 1) \div 2 IN
    IF holeIndex > topIndex /\ cmp(p, c[parent + 1], value)
    THEN PushHeap([c EXCEPT ![holeIndex + 1] = c[parent + 1]], parent, topIndex, value, p)
    ELSE [c EXCEPT ![holeIndex + 1] = value]

(* the while loop of __adjust_heap: move the larger child up *)
RECURSIVE AdjustLoop(_, _, _, _)
AdjustLoop(c, secondChild, len, p) ==
    IF secondChild < (len - 1) \div 2
    THEN LET s2 == 2 * (secondChild + 1)
             s3 == IF cmp(p, c[s2 + 1], c[s2]) THEN s2 - 1 ELSE s2
         IN AdjustLoop([c EXCEPT ![secondChild + 1] = c[s3 + 1]], s3, len, p)
    ELSE [c |-> c, hole |-> secondChild]

AdjustHeap(c, len, value, p) ==
    LET r == AdjustLoop(c, 0, len, p)
        r2 == IF len % 2 = 0 /\ r.hole = (len - 2) \div 2
              THEN LET s2 == 2 * (r.hole + 1)
                   IN [c |-> [r.c EXCEPT ![r.hole + 1] = r.c[s2]], hole |-> s2 - 1]
              ELSE r
    IN PushHeap(r2.c, r2.hole, 0, value, p)

(* libstdc++ pop_heap followed by pop_back *)
PopHeapGnu(c, p) ==
    LET len == Len(c) IN
    IF len > 1
    THEN SubSeq(AdjustHeap([c EXCEPT ![len] = c[1]], len - 1, c[len], p), 1, len - 1)
    ELSE <<>>

(* libc++ __floyd_sift_down: walk the hole down to a leaf *)
RECURSIVE FloydSiftDown(_, _, _, _)
FloydSiftDown(c, child, len, p) ==
    LET left == 2 * child + 1
        ch == IF left + 1 < len /\ cmp(p, c[left + 1], c[left + 2]) THEN left + 1 ELSE left
        c2 == [c EXCEPT ![child + 1] = c[ch + 1]]
    IN IF ch > (len - 2) \div 2 THEN [c |-> c2, hole |-> ch]
       ELSE FloydSiftDown(c2, ch, len, p)

(* libc++ pop_heap followed by pop_back *)
PopHeapLlvm(c, p) ==
    LET len == Len(c) IN
    IF len > 1
    THEN LET r == FloydSiftDown(c, 0, len, p)
             c3 == IF r.hole = len - 1 THEN [r.c EXCEPT ![len] = c[1]]
                   ELSE PushHeap([r.c EXCEPT ![len] = c[1]], r.hole, 0, c[len], p)
         IN SubSeq(c3, 1, len - 1)
    ELSE <<>>

(* priority_queue::push: push_back then push_heap (the same in both libraries) *)
HeapPush(c, v, p) == PushHeap(Append(c, v), Len(c), 0, v, p)

(* priority_queue::pop *)
HeapPop(c, p) == IF stdlib = "libc++" THEN PopHeapLlvm(c, p) ELSE PopHeapGnu(c, p)

----------------------------------------------------------------------------
(* MixedQueueHelper and the fields of InternalPriorityCompositeNode.       *)
(* q1 names what the pointer q1 points to: "own" (q1Container), "simple"  *)
(* (the node's simpleQ1Container) or "dangling" (the q1Container of the    *)
(* temporary that InternalOnBuild move-assigned from).  ex holds the text  *)
(* of a thrown runtime_error.                                              *)

(* a simpleQ1Container filled from the last child to the first *)
simpleQ1ContainerReversed(k) == [i \in 1..k |-> k - i]

(* InternalOnBuild: simpleQ1Container.push_back(i) for every child *)
simpleQ1Container(k) == [i \in 1..k |-> i - 1]

(* state of a composite after InternalOnBuild *)
QueueInit(k) ==
    [p |-> [i \in 1..k |-> 0], areAllEqual |-> FALSE, use1 |-> FALSE,
     q1 |-> "dangling", q1Container |-> <<>>, q1Front |-> 0, q2 |-> <<>>, ex |-> ""]

Q1(q) == IF q.q1 = "simple" THEN simpleQ1Container(Len(q.p)) ELSE q.q1Container

SetFlag(q, u1) == [q EXCEPT !.use1 = u1]

SetQ1Container(q) == [q EXCEPT !.q1 = "simple", !.q1Front = 0]

(* a ResetQ1Container that leaves q1 where it points *)
ResetQ1ContainerKeep(q) == q

(* MixedQueueHelper::ResetQ1Container: q1 = &q1Container *)
ResetQ1Container(q) == [q EXCEPT !.q1 = "own"]

(* a Clear that leaves both queues as they are *)
ClearKeep(q) == q

(* MixedQueueHelper::Clear *)
Clear(q) ==
    IF q.use1
    THEN IF q.q1 # "own" THEN [q EXCEPT !.ex = "bt: cant clear on outside q1 container"]
         ELSE [q EXCEPT !.q1Container = <<>>, !.q1Front = 0]
    ELSE [q EXCEPT !.q2 = <<>>]

Push(q, v) ==
    IF q.ex # "" THEN q
    ELSE IF q.use1
    THEN IF q.q1 # "own" THEN [q EXCEPT !.ex = "bt: cant push on outside q1 container"]
         ELSE [q EXCEPT !.q1Container = Append(@, v)]
    ELSE [q EXCEPT !.q2 = HeapPush(@, v, q.p)]

Empty(q) == IF q.use1 THEN q.q1Front = Len(Q1(q)) ELSE q.q2 = <<>>

(* the value Pop returns *)
Front(q) == IF q.use1 THEN Q1(q)[q.q1Front + 1] ELSE q.q2[1]

(* the queue Pop leaves *)
Pop(q) ==
    IF q.use1 THEN [q EXCEPT !.q1Front = @ + 1]
    ELSE [q EXCEPT !.q2 = HeapPop(@, q.p)]

----------------------------------------------------------------------------
(* The machine record m threaded through one root Tick:                    *)
(*   stores, cache, q   the program state the tick reads and writes        *)
(*   log, hist, draws   the call log, the Update history, the draws made   *)
(*   ret                the status the call just made returned             *)
(*   pv                 the value the priority query just made returned    *)
(*   err                the text of an exception in flight, or ""          *)

Ret(m, s) == [m EXCEPT !.ret = s]

Max(a, b) == IF a >= b THEN a ELSE b
Min(a, b) == IF a <= b THEN a ELSE b

(* a stateful composite reaches its blob through GetNodeBlobHelper<Blob>() *)
Touch(m, n) == IF IsStateful(n) THEN GetNodeBlobHelper(m, n) ELSE m

(* Considerable that forgets the skip flags *)
ConsiderableAlways(m, n, i) == TRUE

(* CompositeNode::Considerable / InternalStatefulCompositeNode::Considerable *)
Considerable(m, n, i) ==
    IF IsStateful(n) THEN ~(Blob(GetNodeBlobHelper(m, n), n).st[i + 1]) ELSE TRUE

(* InternalStatefulCompositeNode::Skip *)
Skip(m, n, i) ==
    Emit([GetNodeBlobHelper(m, n) EXCEPT !.stores[treeBlob][n].st[i + 1] = TRUE],
         "Skip", n, "-", i)

(* OnChildSuccess that skips under a StatefulSequence only *)
OnChildSuccessSequenceOnly(m, n, i) ==
    IF Kind(n) = "StatefulSequence" THEN Skip(m, n, i) ELSE m

(* StatefulSequenceNode / StatefulParallelNode ::OnChildSuccess *)
OnChildSuccess(m, n, i) ==
    IF Kind(n) \in {"StatefulSequence", "StatefulParallel"} THEN Skip(m, n, i) ELSE m

(* OnChildFailure that skips the failed child under every stateful composite *)
OnChildFailureSkipAll(m, n, i) == IF IsStateful(n) THEN Skip(m, n, i) ELSE m

(* StatefulSelectorNode / StatefulRandomSelectorNode ::OnChildFailure *)
OnChildFailure(m, n, i) ==
    IF Kind(n) \in {"StatefulSelector", "StatefulRandomSelector"} THEN Skip(m, n, i) ELSE m

(* Timepoint::min() *)
TimepointMin == -1000

Arg(n) == tree.arg[n]
Interval(n) == tree.arg2[n]

(* what the OnEnter overrides write to the node's blob: RepeatNode,        *)
(* TimeoutNode, DelayNode, RetryNode                                       *)
EnterBlob(n, b) ==
    IF Kind(n) = "Repeat" THEN [b EXCEPT !.cnt = 0]
    ELSE IF Kind(n) = "Timeout" THEN [b EXCEPT !.startAt = now]
    ELSE IF Kind(n) = "Delay" THEN [b EXCEPT !.firstRunAt = now]
    ELSE IF Kind(n) = "Retry" THEN [b EXCEPT !.cnt = 0, !.lastRetryAt = TimepointMin]
    ELSE b

(* what the OnTerminate overrides write: RepeatNode, DelayNode, RetryNode *)
TerminateBlob(n, b, status) ==
    IF Kind(n) = "Repeat" THEN [b EXCEPT !.cnt = 0]
    ELSE IF Kind(n) = "Delay" THEN [b EXCEPT !.firstRunAt = TimepointMin]
    ELSE IF Kind(n) = "Retry"
    THEN [b EXCEPT !.cnt = 0,
                   !.lastRetryAt = IF status = FAILURE THEN now ELSE TimepointMin]
    ELSE b

(* Node::OnEnter and its overrides *)
OnEnter(m, n) ==
    LET m1 == Emit(m, "OnEnter", n, "-", 0) IN
    [m1 EXCEPT !.stores[treeBlob][n] = EnterBlob(n, @)]

(* OnTerminate that leaves the skip flags as they are *)
OnTerminateKeep(m, n, status) == Emit(m, "OnTerminate", n, status, 0)

(* Node::OnTerminate; InternalStatefulCompositeNode::OnTerminate clears st *)
OnTerminate(m, n, status) ==
    LET m1 == Emit(m, "OnTerminate", n, status, 0) IN
    IF IsStateful(n)
    THEN [GetNodeBlobHelper(m1, n) EXCEPT
             !.stores[treeBlob][n].st = [i \in 1..NumKids(n) |-> FALSE]]
    ELSE [m1 EXCEPT !.stores[treeBlob][n] = TerminateBlob(n, @, status)]

RECURSIVE GetPriorityCurrentTick(_, _)
RECURSIVE CompositePriority(_, _, _, _)
RECURSIVE Tick(_, _)
RECURSIVE Update(_, _)
RECURSIVE RefreshLoop(_, _, _, _)
RECURSIVE SequenceLoop(_, _)
RECURSIVE SelectorLoop(_, _)
RECURSIVE ParallelLoop(_, _, _, _, _)
RECURSIVE RandomLoop(_, _, _)

(* Node::Priority and its overrides: a leaf's user code picks a value,     *)
(* SingleNode asks its child, CompositeNode takes the maximum over its     *)
(* considerable children                                                   *)
Priority(n, m) ==
    IF Kind(n) \in LeafKinds
    THEN { Emit([m EXCEPT !.pv = v], "Priority", n, "-", v) : v \in tree.pris[n] }
    ELSE IF IsComposite(n)
    THEN { Emit(r, "Priority", n, "-", r.pv) : r \in CompositePriority(n, 0, 0, m) }
    ELSE { Emit(r, "Priority", n, "-", r.pv)
           : r \in GetPriorityCurrentTick(Child(n, 0), m) }

(* a CompositeNode::Priority that asks the skipped children as well *)
CompositePriorityAll(n, i, ans, m) ==
    IF i = NumKids(n) THEN {[m EXCEPT !.pv = ans]}
    ELSE UNION { CompositePriority(n, i + 1, Max(ans, r.pv), r)
                 : r \in GetPriorityCurrentTick(Child(n, i), Touch(m, n)) }

(* CompositeNode::Priority: the maximum over the considerable children *)
CompositePriority(n, i, ans, m) ==
    IF i = NumKids(n) THEN {[m EXCEPT !.pv = ans]}
    ELSE IF ~Considerable(m, n, i) THEN CompositePriority(n, i + 1, ans, Touch(m, n))
    ELSE UNION { CompositePriority(n, i + 1, Max(ans, r.pv), r)
                 : r \in GetPriorityCurrentTick(Child(n, i), Touch(m, n)) }

(* GetPriorityCurrentTick without the memo: Priority on every query *)
GetPriorityCurrentTickNoMemo(n, m) ==
    { [r EXCEPT !.cache[n] = [v |-> r.pv, seq |-> ctxSeq, by |-> treeBlob]]
      : r \in Priority(n, m) }

(* Node::GetPriorityCurrentTick: the memo on the node, keyed by ctx.seq.   *)
(* by records the entity whose tick computed the memoized value.           *)
GetPriorityCurrentTick(n, m) ==
    LET c == m.cache[n]
        cur == IF ctxSeq # c.seq THEN 0 ELSE c.v
    IN IF cur = 0
       THEN { [r EXCEPT !.cache[n] = [v |-> r.pv, seq |-> ctxSeq, by |-> treeBlob]]
              : r \in Priority(n, m) }
       ELSE { Emit2([m EXCEPT !.pv = cur], "Memo", n, c.by, cur,
                    IF c.by = treeBlob THEN 1 ELSE 0) }

(* InternalPriorityCompositeNode::Refresh; v is the first valid priority *)
RefreshLoop(n, i, v, m) ==
    IF i = NumKids(n) THEN {m}
    ELSE IF ~Considerable(m, n, i) THEN RefreshLoop(n, i + 1, v, Touch(m, n))
    ELSE UNION { LET v2 == IF v = 0 THEN r.pv ELSE v
                     r2 == [r EXCEPT !.q[n].p[i + 1] = r.pv,
                                     !.q[n].areAllEqual = IF v2 # r.pv THEN FALSE ELSE @]
                 IN RefreshLoop(n, i + 1, v2, Emit2(r2, "Consider", n, "-", i, r.pv))
                 : r \in GetPriorityCurrentTick(Child(n, i), Touch(m, n)) }

Refresh(n, m) == RefreshLoop(n, 0, 0, [m EXCEPT !.q[n].areAllEqual = TRUE])

(* the loop of Enqueue: push every considerable child *)
RECURSIVE PushAll(_, _, _, _)
PushAll(m, n, i, q) ==
    IF i = NumKids(n) THEN q
    ELSE PushAll(m, n, i + 1, IF Considerable(m, n, i) THEN Push(q, i) ELSE q)

(* CompositeNode::IsParatialConsidered *)
IsParatialConsidered(n) == IsStateful(n)

(* InternalPriorityCompositeNode::Enqueue *)
Enqueue(n, m) ==
    LET q0 == SetFlag(m.q[n], m.q[n].areAllEqual)
        q1 == IF (~IsParatialConsidered(n)) /\ q0.areAllEqual
              THEN SetQ1Container(q0)
              ELSE PushAll(m, n, 0, Clear(ResetQ1Container(q0)))
    IN Emit([m EXCEPT !.q[n] = [q1 EXCEPT !.ex = ""], !.err = q1.ex],
            "Enqueue", n, "-", IF q0.areAllEqual THEN 1 ELSE 0)

(* SequenceLoop that goes on to the next child after a FAILURE *)
SequenceLoopPastFailure(n, m) ==
    IF Empty(m.q[n]) THEN {Ret(m, SUCCESS)}
    ELSE LET i == Front(m.q[n])
             m1 == Emit([m EXCEPT !.q[n] = Pop(@)], "Pop", n, "-", i)
         IN UNION { IF r.err # "" THEN {r}
                    ELSE IF r.ret = RUNNING THEN {Ret(r, RUNNING)}
                    ELSE IF r.ret = FAILURE THEN SequenceLoop(n, OnChildFailure(r, n, i))
                    ELSE SequenceLoop(n, OnChildSuccess(r, n, i))
                    : r \in Tick(Child(n, i), m1) }

(* InternalSequenceNodeBase::InternalUpdate *)
SequenceLoop(n, m) ==
    IF Empty(m.q[n]) THEN {Ret(m, SUCCESS)}
    ELSE LET i == Front(m.q[n])
             m1 == Emit([m EXCEPT !.q[n] = Pop(@)], "Pop", n, "-", i)
         IN UNION { IF r.err # "" THEN {r}
                    ELSE IF r.ret = RUNNING THEN {Ret(r, RUNNING)}
                    ELSE IF r.ret = FAILURE THEN {Ret(OnChildFailure(r, n, i), FAILURE)}
                    ELSE SequenceLoop(n, OnChildSuccess(r, n, i))
                    : r \in Tick(Child(n, i), m1) }

(* SelectorLoop that goes on to the next child after a RUNNING *)
SelectorLoopPastRunning(n, m) ==
    IF Empty(m.q[n]) THEN {Ret(m, FAILURE)}
    ELSE LET i == Front(m.q[n])
             m1 == Emit([m EXCEPT !.q[n] = Pop(@)], "Pop", n, "-", i)
         IN UNION { IF r.err # "" THEN {r}
                    ELSE IF r.ret = SUCCESS THEN {Ret(OnChildSuccess(r, n, i), SUCCESS)}
                    ELSE SelectorLoop(n, OnChildFailure(r, n, i))
                    : r \in Tick(Child(n, i), m1) }

(* InternalSelectorNodeBase::InternalUpdate *)
SelectorLoop(n, m) ==
    IF Empty(m.q[n]) THEN {Ret(m, FAILURE)}
    ELSE LET i == Front(m.q[n])
             m1 == Emit([m EXCEPT !.q[n] = Pop(@)], "Pop", n, "-", i)
         IN UNION { IF r.err # "" THEN {r}
                    ELSE IF r.ret = RUNNING THEN {Ret(r, RUNNING)}
                    ELSE IF r.ret = SUCCESS THEN {Ret(OnChildSuccess(r, n, i), SUCCESS)}
                    ELSE SelectorLoop(n, OnChildFailure(r, n, i))
                    : r \in Tick(Child(n, i), m1) }

(* ParallelResult that succeeds as soon as one child succeeded *)
ParallelResultAnySuccess(cntSuccess, cntFailure, total) ==
    IF cntSuccess > 0 \/ total = 0 THEN SUCCESS
    ELSE IF cntFailure > 0 THEN FAILURE
    ELSE RUNNING

(* the counters of InternalParallelNodeBase::InternalUpdate decide the result *)
ParallelResult(cntSuccess, cntFailure, total) ==
    IF cntSuccess = total THEN SUCCESS
    ELSE IF cntFailure > 0 THEN FAILURE
    ELSE RUNNING

(* InternalParallelNodeBase::InternalUpdate *)
ParallelLoop(n, m, cntFailure, cntSuccess, total) ==
    IF Empty(m.q[n]) THEN {Ret(m, ParallelResult(cntSuccess, cntFailure, total))}
    ELSE LET i == Front(m.q[n])
             m1 == Emit([m EXCEPT !.q[n] = Pop(@)], "Pop", n, "-", i)
         IN UNION { IF r.err # "" THEN {r}
                    ELSE IF r.ret = FAILURE
                    THEN ParallelLoop(n, OnChildFailure(r, n, i), cntFailure + 1, cntSuccess, total + 1)
                    ELSE IF r.ret = SUCCESS
                    THEN ParallelLoop(n, OnChildSuccess(r, n, i), cntFailure, cntSuccess + 1, total + 1)
                    ELSE ParallelLoop(n, r, cntFailure, cntSuccess, total + 1)
                    : r \in Tick(Child(n, i), m1) }

(* InternalPriorityCompositeNode::InternalUpdate, by kind *)
InternalUpdate(n, m) ==
    IF Kind(n) \in SequenceKinds THEN SequenceLoop(n, m)
    ELSE IF Kind(n) \in SelectorKinds THEN SelectorLoop(n, m)
    ELSE ParallelLoop(n, m, 0, 0, 0)

(* InternalPriorityCompositeNode::Update *)
PriorityCompositeUpdate(n, m) ==
    UNION { LET r2 == Enqueue(n, r) IN IF r2.err # "" THEN {r2} ELSE InternalUpdate(n, r2)
            : r \in Refresh(n, m) }

(* The unsigned int total of the random selector is held as the residue   *)
(* of least magnitude: a negative t stands for the value 2^32 + t that the *)
(* wrapped subtraction leaves (the weights are far below 2^31).            *)
Wrapped(t) == t < 0

(* sum of the weights of the considerable children *)
RECURSIVE SumConsiderable(_, _, _)
SumConsiderable(m, n, i) ==
    IF i = NumKids(n) THEN 0
    ELSE (IF Considerable(m, n, i) THEN m.q[n].p[i + 1] ELSE 0)
         + SumConsiderable(m, n, i + 1)

(* the lambda select of InternalRandomSelectorNodeBase::Update *)
RECURSIVE select(_, _, _, _, _)
select(m, n, v, i, s) ==
    IF i = NumKids(n) THEN 0
    ELSE IF ~Considerable(m, n, i) THEN select(m, n, v, i + 1, s)
    ELSE LET s2 == s + m.q[n].p[i + 1]
         IN IF v <= s2 THEN i ELSE select(m, n, v, i + 1, s2)

(* the values distribution(rng) can take, in [1, total]; every value above *)
(* the sum of the considerable weights makes select behave the same, so    *)
(* one of them stands for all                                              *)
DrawRange(m, n, total) ==
    LET above == SumConsiderable(m, n, 0) + 1
    IN IF Wrapped(total) THEN 1..above ELSE 1..Min(total, above)

(* the while loop of InternalRandomSelectorNodeBase::Update *)
RandomLoop(n, m, total) ==
    IF total = 0 THEN {Ret(m, FAILURE)}
    ELSE IF m.draws >= MaxDraws THEN {}
    ELSE UNION { LET i == select(m, n, v, 0, 0)
                     m1 == Emit([m EXCEPT !.draws = @ + 1], "Draw", n, "-", i)
                 IN UNION { IF r.err # "" THEN {r}
                            ELSE IF r.ret = RUNNING THEN {Ret(r, RUNNING)}
                            ELSE IF r.ret = SUCCESS THEN {Ret(OnChildSuccess(r, n, i), SUCCESS)}
                            ELSE RandomLoop(n, OnChildFailure(r, n, i),
                                            total - r.q[n].p[i + 1])
                            : r \in Tick(Child(n, i), m1) }
                 : v \in DrawRange(m, n, total) }

(* InternalRandomSelectorNodeBase::Update *)
RandomUpdate(n, m) ==
    UNION { RandomLoop(n, r, SumConsiderable(r, n, 0)) : r \in Refresh(n, m) }

(* an Invert that turns every finished child into FAILURE *)
InvertStatusFailureOnly(status) ==
    IF status = RUNNING THEN RUNNING ELSE FAILURE

(* InvertNode::Update *)
InvertStatus(status) ==
    IF status = RUNNING THEN RUNNING
    ELSE IF status = FAILURE THEN SUCCESS
    ELSE FAILURE

(* a ConditionalRun that goes on with a child left running *)
ConditionalRunUpdateResume(n, m) ==
    UNION { IF r.err # "" THEN {r}
            ELSE IF r.ret = SUCCESS \/ Blob(r, Child(n, 0)).running
            THEN Tick(Child(n, 0), r)
            ELSE {Ret(r, FAILURE)}
            : r \in Tick(Child(n, 1), m) }

(* ConditionalRunNode::Update *)
ConditionalRunUpdate(n, m) ==
    UNION { IF r.err # "" THEN {r}
            ELSE IF r.ret = SUCCESS THEN Tick(Child(n, 0), r)
            ELSE {Ret(r, FAILURE)}
            : r \in Tick(Child(n, 1), m) }

(* a Repeat that is satisfied by the first success of its child *)
RepeatCountOnce(n, m, status) ==
    IF status = RUNNING THEN Ret(m, RUNNING)
    ELSE IF status = FAILURE THEN Ret(m, FAILURE)
    ELSE Ret([m EXCEPT !.stores[treeBlob][n].cnt = @ + 1], SUCCESS)

(* RepeatNode::Update after the child returned status *)
RepeatCount(n, m, status) ==
    IF status = RUNNING THEN Ret(m, RUNNING)
    ELSE IF status = FAILURE THEN Ret(m, FAILURE)
    ELSE LET m1 == [m EXCEPT !.stores[treeBlob][n].cnt = @ + 1] IN
         IF Blob(m1, n).cnt = Arg(n) THEN Ret(m1, SUCCESS) ELSE Ret(m1, RUNNING)

(* a Repeat without the test n == 0 *)
RepeatUpdateNoShortcut(n, m) ==
    { IF r.err # "" THEN r ELSE RepeatCount(n, r, r.ret) : r \in Tick(Child(n, 0), m) }

(* RepeatNode::Update *)
RepeatUpdate(n, m) ==
    IF Arg(n) = 0 THEN {Ret(m, SUCCESS)}
    ELSE { IF r.err # "" THEN r ELSE RepeatCount(n, r, r.ret) : r \in Tick(Child(n, 0), m) }

(* a Timeout that fails from the deadline on *)
TimeoutUpdateAtDeadline(n, m) ==
    LET m1 == Emit(m, "Clock", n, "-", now) IN
    IF now >= Blob(m1, n).startAt + Arg(n) THEN {Ret(m1, FAILURE)}
    ELSE Tick(Child(n, 0), m1)

(* TimeoutNode::Update *)
TimeoutUpdate(n, m) ==
    LET m1 == Emit(m, "Clock", n, "-", now) IN
    IF now > Blob(m1, n).startAt + Arg(n) THEN {Ret(m1, FAILURE)}
    ELSE Tick(Child(n, 0), m1)

(* a Delay that still waits at the deadline *)
DelayUpdatePastDeadline(n, m) ==
    LET m1 == Emit(m, "Clock", n, "-", now) IN
    IF now <= Blob(m1, n).firstRunAt + Arg(n) THEN {Ret(m1, RUNNING)}
    ELSE Tick(Child(n, 0), m1)

(* DelayNode::Update *)
DelayUpdate(n, m) ==
    LET m1 == Emit(m, "Clock", n, "-", now) IN
    IF now < Blob(m1, n).firstRunAt + Arg(n) THEN {Ret(m1, RUNNING)}
    ELSE Tick(Child(n, 0), m1)

(* a Retry that gives up on the failure numbered maxRetries *)
RetryCountEarly(n, m, status) ==
    IF status \in {RUNNING, SUCCESS} THEN Ret(m, status)
    ELSE LET m1 == [m EXCEPT !.stores[treeBlob][n].cnt = @ + 1] IN
         IF Blob(m1, n).cnt >= Arg(n) /\ Arg(n) # -1 THEN Ret(m1, FAILURE)
         ELSE Ret(m1, RUNNING)

(* RetryNode::Update after the child returned status *)
RetryCount(n, m, status) ==
    IF status \in {RUNNING, SUCCESS} THEN Ret(m, status)
    ELSE LET m1 == [m EXCEPT !.stores[treeBlob][n].cnt = @ + 1] IN
         IF Blob(m1, n).cnt > Arg(n) /\ Arg(n) # -1 THEN Ret(m1, FAILURE)
         ELSE Ret(m1, RUNNING)

(* RetryNode::Update *)
RetryUpdate(n, m) ==
    IF Arg(n) # -1 /\ Blob(m, n).cnt > Arg(n) THEN {Ret(m, FAILURE)}
    ELSE LET m1 == Emit(m, "Clock", n, "-", now) IN
         IF Blob(m1, n).cnt > 0 /\ now < Blob(m1, n).lastRetryAt + Interval(n)
         THEN {Ret(m1, RUNNING)}
         ELSE { IF r.err # "" THEN r ELSE RetryCount(n, r, r.ret)
                : r \in Tick(Child(n, 0), m1) }

(* a ForceSuccess / ForceFailure that coerces RUNNING as well *)
ForceStatusAll(n, status) ==
    IF Kind(n) = "ForceSuccess" THEN SUCCESS ELSE FAILURE

(* ForceSuccessNode::Update / ForceFailureNode::Update on the child's Update result *)
ForceStatus(n, status) ==
    IF status = RUNNING THEN RUNNING
    ELSE IF Kind(n) = "ForceSuccess" THEN SUCCESS ELSE FAILURE

(* a ForceSuccess / ForceFailure that ticks its child *)
ForceUpdateTicks(n, m) ==
    { IF r.err # "" THEN r ELSE Ret(r, ForceStatus(n, r.ret)) : r \in Tick(Child(n, 0), m) }

(* ForceSuccessNode::Update / ForceFailureNode::Update: child->Update(ctx) *)
ForceUpdate(n, m) ==
    { IF r.err # "" THEN r ELSE Ret(r, ForceStatus(n, r.ret)) : r \in Update(Child(n, 0), m) }

(* the virtual Update of each node kind *)
UpdateBody(n, m) ==
    IF Kind(n) \in LeafKinds THEN { Ret(m, s) : s \in tree.may[n] }
    ELSE IF Kind(n) \in RandomKinds THEN RandomUpdate(n, Touch(m, n))
    ELSE IF IsComposite(n) THEN PriorityCompositeUpdate(n, Touch(m, n))
    ELSE IF Kind(n) = "Root" THEN Tick(Child(n, 0), m)
    ELSE IF Kind(n) = "Invert"
    THEN { IF r.err # "" THEN r ELSE Ret(r, InvertStatus(r.ret)) : r \in Tick(Child(n, 0), m) }
    ELSE IF Kind(n) = "ConditionalRun" THEN ConditionalRunUpdate(n, m)
    ELSE IF Kind(n) = "Repeat" THEN RepeatUpdate(n, m)
    ELSE IF Kind(n) = "Timeout" THEN TimeoutUpdate(n, m)
    ELSE IF Kind(n) = "Delay" THEN DelayUpdate(n, m)
    ELSE IF Kind(n) = "Retry" THEN RetryUpdate(n, m)
    ELSE ForceUpdate(n, m)

(* one call of Update, entered in the log and in the history *)
Update(n, m) ==
    LET m1 == Emit(m, "Update", n, "-", 0)
        k == Len(m1.log)
    IN { IF r.err # "" THEN r
         ELSE [Emit(r, "UpdateRet", n, r.ret, k) EXCEPT
                  !.hist[treeBlob][n] = [st |-> r.ret, seq |-> ctxSeq]]
         : r \in UpdateBody(n, m1) }

(* TickEnter without the test of b->running *)
TickEnterAlways(n, m) ==
    [OnEnter(m, n) EXCEPT !.stores[treeBlob][n].running = TRUE]

(* Node::Tick up to the call of Update: OnEnter on the first run of a round *)
TickEnter(n, m) ==
    LET m1 == IF ~Blob(m, n).running THEN OnEnter(m, n) ELSE m
    IN [m1 EXCEPT !.stores[treeBlob][n].running = TRUE]

(* TickLeave that ends the round on SUCCESS only *)
TickLeaveSuccessOnly(n, m, status) ==
    LET m1 == [m EXCEPT !.stores[treeBlob][n].lastStatus = status,
                        !.stores[treeBlob][n].lastSeq = ctxSeq]
        m2 == IF status = SUCCESS
              THEN [OnTerminate(m1, n, status) EXCEPT !.stores[treeBlob][n].running = FALSE]
              ELSE m1
    IN Ret(Emit(m2, "TickEnd", n, status, IF Blob(m2, n).running THEN 1 ELSE 0), status)

(* TickLeave that records lastSeq only when the round ends *)
TickLeaveSeqAtEnd(n, m, status) ==
    LET m1 == [m EXCEPT !.stores[treeBlob][n].lastStatus = status]
        m2 == IF status = FAILURE \/ status = SUCCESS
              THEN [OnTerminate(m1, n, status) EXCEPT !.stores[treeBlob][n].running = FALSE,
                                                      !.stores[treeBlob][n].lastSeq = ctxSeq]
              ELSE m1
    IN Ret(Emit(m2, "TickEnd", n, status, IF Blob(m2, n).running THEN 1 ELSE 0), status)

(* Node::Tick after Update returned status *)
TickLeave(n, m, status) ==
    LET m1 == [m EXCEPT !.stores[treeBlob][n].lastStatus = status,
                        !.stores[treeBlob][n].lastSeq = ctxSeq]
        m2 == IF status = FAILURE \/ status = SUCCESS
              THEN [OnTerminate(m1, n, status) EXCEPT !.stores[treeBlob][n].running = FALSE]
              ELSE m1
    IN Ret(Emit(m2, "TickEnd", n, status, IF Blob(m2, n).running THEN 1 ELSE 0), status)

(* Node::Tick *)
Tick(n, m) ==
    LET m0 == GetNodeBlobHelper(m, n)
        m1 == Emit(m0, "Tick", n, "-", IF Blob(m0, n).running THEN 1 ELSE 0)
    IN { IF r.err # "" THEN r ELSE TickLeave(n, r, r.ret) : r \in Update(n, TickEnter(n, m1)) }

----------------------------------------------------------------------------
(* State after the tree is built (Builder, InternalOnBuild) and before any *)
(* blob is bound: Context() has seq 0, every tree blob is empty.           *)

Entities == DOMAIN stores

(* no call of Make yet *)
NoMake == [id |-> 0, size |-> 0, cb |-> FALSE, res |-> "none", p |-> 0, calls |-> 0]

----------------------------------------------------------------------------
(* The tree builder.  A node under construction is a record: its kind, its *)
(* id, the nodes it owns as children (indexes into nodes) and, for a       *)
(* ConditionalRunNode, the condition it owns.  A node that no reachable    *)
(* node owns any more has been destroyed by its unique_ptr.                *)

BuildSingleKinds == {"Root", "Invert", "ConditionalRun"}
BuildLeafKinds == {"Action", "Condition"}

(* a Builder before BindRoot: nextNodeId = 0, level = 1, root->n = 0 *)
NoBuild ==
    [nodes |-> <<>>, nextNodeId |-> 0, n |-> 0, stack |-> <<>>, level |-> 1,
     err |-> "", ended |-> FALSE]

(* a node as its constructor leaves it: Node::id = 0 *)
BuildNode(kind, kids, cond) == [kind |-> kind, id |-> 0, kids |-> kids, cond |-> cond]

(* node.root = root; root->n++; node.id = ++nextNodeId *)
MaintainNodeBindInfo(b, i) ==
    [b EXCEPT !.nodes[i].id = b.nextNodeId + 1,
              !.n = b.n + 1,
              !.nextNodeId = b.nextNodeId + 1]

(* Builder::Make(skipAttach, args...): make_unique, then OnNodeAttach      *)
(* unless skipAttach                                                       *)
BuilderMake(b, skipAttach, node) ==
    LET b1 == [b EXCEPT !.nodes = Append(b.nodes, node)] IN
    IF skipAttach THEN b1 ELSE MaintainNodeBindInfo(b1, Len(b1.nodes))

StackTop(b) == b.stack[Len(b.stack)]

(* SingleNode::Validate, CompositeNode::Validate *)
NodeValidate(b, i) ==
    IF b.nodes[i].kids # <<>> THEN ""
    ELSE IF b.nodes[i].kind \in BuildSingleKinds THEN "no child node provided"
    ELSE "children empty"

(* InternalBuilderBase::Pop: Validate throws before the pop *)
BuilderPop(b) ==
    LET e == NodeValidate(b, StackTop(b)) IN
    IF e # "" THEN [b EXCEPT !.err = e]
    ELSE [b EXCEPT !.stack = SubSeq(b.stack, 1, Len(b.stack) - 1)]

RECURSIVE PopTo(_, _)
PopTo(b, size) ==
    IF b.err # "" \/ Len(b.stack) <= size THEN b ELSE PopTo(BuilderPop(b), size)

(* InternalBuilderBase::Adjust: ValidateIndent, then pop down to level *)
Adjust(b) ==
    IF b.level > Len(b.stack) THEN [b EXCEPT !.err = "too much indent"]
    ELSE PopTo(b, b.level)

(* SingleNode::Append replaces the child, CompositeNode::Append adds one *)
NodeAppend(b, parent, child) ==
    [b EXCEPT !.nodes[parent].kids =
        IF b.nodes[parent].kind \in BuildSingleKinds THEN <<child>> ELSE Append(@, child)]

AttachLeafNode(b, p) ==
    LET b1 == Adjust(b) IN
    IF b1.err # "" THEN b1
    ELSE [NodeAppend(b1, StackTop(b1), p) EXCEPT !.level = 1]

AttachInternalNode(b, p) ==
    LET b1 == Adjust(b) IN
    IF b1.err # "" THEN b1
    ELSE [NodeAppend(b1, StackTop(b1), p) EXCEPT !.stack = Append(b1.stack, p), !.level = 1]

BuilderAttach(b, p) ==
    IF b.nodes[p].kind \in BuildLeafKinds THEN AttachLeafNode(b, p) ELSE AttachInternalNode(b, p)

(* Tree::Tree: the RootNode is constructed, then BindRoot pushes it and    *)
(* OnRootAttach numbers it                                                 *)
BindRoot ==
    LET b1 == [NoBuild EXCEPT !.nodes = <<BuildNode("Root", <<>>, 0)>>, !.stack = <<1>>] IN
    MaintainNodeBindInfo(b1, 1)

(* Builder::_ *)
BuilderIndent(b) == [b EXCEPT !.level = b.level + 1]

(* Builder::C<T>: Make<T>(false, ...) first, then the attach *)
BuilderC(b, kind) ==
    LET b1 == BuilderMake(b, FALSE, BuildNode(kind, <<>>, 0)) IN
    BuilderAttach(b1, Len(b1.nodes))

(* Builder::M<T>: Make<T>(true, std::move(inst)) of a node made outside *)
BuilderM(b, kind) ==
    LET b1 == BuilderMake(b, TRUE, BuildNode(kind, <<>>, 0)) IN
    BuilderAttach(b1, Len(b1.nodes))

(* Builder::If, IfNot, Case: the condition is made first, then the         *)
(* ConditionalRunNode that owns it                                         *)
BuilderIf(b) ==
    LET b1 == BuilderMake(b, FALSE, BuildNode("Condition", <<>>, 0))
        b2 == BuilderMake(b1, FALSE, BuildNode("ConditionalRun", <<>>, Len(b1.nodes)))
    IN AttachInternalNode(b2, Len(b2.nodes))

(* Builder::Not: an InvertNode constructed with the condition as its child *)
BuilderNot(b) ==
    LET b1 == BuilderMake(b, FALSE, BuildNode("Condition", <<>>, 0))
        b2 == BuilderMake(b1, FALSE, BuildNode("Invert", <<Len(b1.nodes)>>, 0))
    IN AttachInternalNode(b2, Len(b2.nodes))

(* Builder::End *)
BuilderEnd(b) ==
    LET b1 == PopTo(b, 0) IN
    IF b1.err # "" THEN b1 ELSE [b1 EXCEPT !.ended = TRUE]

(* Traverse with a pre callback: the node, its condition, its children *)
RECURSIVE PreOrder(_, _)
RECURSIVE PreOrderAll(_, _)
PreOrder(nodes, i) ==
    <<i>> \o (IF nodes[i].cond # 0 THEN PreOrder(nodes, nodes[i].cond) ELSE <<>>)
          \o PreOrderAll(nodes, nodes[i].kids)
PreOrderAll(nodes, is) ==
    IF is = <<>> THEN <<>> ELSE PreOrder(nodes, Head(is)) \o PreOrderAll(nodes, Tail(is))

RECURSIVE BindAll(_, _)
BindAll(b, order) ==
    IF order = <<>> THEN b ELSE BindAll(MaintainNodeBindInfo(b, Head(order)), Tail(order))

(* the subtree's nodes seen from the parent builder *)
Moved(node, off) ==
    [node EXCEPT !.kids = [k \in DOMAIN @ |-> @[k] + off],
                 !.cond = IF @ = 0 THEN 0 ELSE @ + off]

(* InternalBuilderBase::OnSubtreeAttach: MaintainNodeBindInfo on every     *)
(* node of the subtree, in pre-order, against the parent's root            *)
OnSubtreeAttach(b, s) ==
    LET off == Len(b.nodes)
        b1 == [b EXCEPT !.nodes = b.nodes \o [i \in 1..Len(s.nodes) |-> Moved(s.nodes[i], off)]]
    IN BindAll(b1, PreOrder(b1.nodes, off + 1))

(* Builder::Subtree: OnSubtreeAttach, then M<RootNode>(std::move(subtree)) *)
BuilderSubtree(b, s) ==
    AttachInternalNode(OnSubtreeAttach(b, s), Len(b.nodes) + 1)

(* trees built beforehand and handed to Subtree: Root[Sequence[Action]],   *)
(* Root[If[Action]] and Root[Not]                                          *)
Subtrees ==
    { BuilderEnd(BuilderC(BuilderIndent(BuilderC(BindRoot, "Sequence")), "Action")),
      BuilderEnd(BuilderC(BuilderIndent(BuilderIf(BindRoot)), "Action")),
      BuilderEnd(BuilderNot(BindRoot)) }

(* the nodes Traverse visits from the root, and NumNodes() *)
BuiltNodes(b) == {PreOrder(b.nodes, 1)[k] : k \in 1..Len(PreOrder(b.nodes, 1))}
BuiltIds(b) == {b.nodes[i].id : i \in BuiltNodes(b)}
RootNumNodes(b) == b.n

(* the tree of one of the scenarios S, built, nothing bound *)
InitTree(S) ==
    /\ \E sc \in S :
          /\ tree = sc.tree
          /\ stdlib = sc.stdlib
          /\ stores = [e \in sc.ents |-> [n \in Nodes |-> NodeBlob]]
    /\ treeBlob = None
    /\ ctxSeq = 0
    /\ priorityCache = [n \in Nodes |-> [v |-> 0, seq |-> 0, by |-> None]]
    /\ queues = [n \in Nodes |-> QueueInit(NumKids(n))]
    /\ log = <<>>
    /\ rootStatus = UNDEFINED
    /\ lastUpdate = [e \in Entities |-> [n \in Nodes |-> [st |-> UNDEFINED, seq |-> 0]]]
    /\ ticks = 0
    /\ now = 0

Init ==
    /\ InitTree(Scenarios)
    /\ build = NoBuild
    /\ blob = NewBlob("dynamic")
    /\ made = NoMake

(* RootNode::BindTreeBlob *)
BindTreeBlob(e) ==
    /\ treeBlob # e
    /\ treeBlob' = e
    /\ UNCHANGED <<tree, stdlib, ctxSeq, stores, priorityCache, queues, log,
                   rootStatus, lastUpdate, ticks, blob, made, now, build>>

(* RootNode::UnbindTreeBlob *)
UnbindTreeBlob ==
    /\ treeBlob # None
    /\ treeBlob' = None
    /\ UNCHANGED <<tree, stdlib, ctxSeq, stores, priorityCache, queues, log,
                   rootStatus, lastUpdate, ticks, blob, made, now, build>>

(* the caller's ++ctx.seq between ticks (RootNode::TickForever, the tests) *)
NextSeq ==
    /\ ctxSeq < MaxSeq
    /\ ctxSeq' = ctxSeq + 1
    /\ UNCHANGED <<tree, stdlib, treeBlob, stores, priorityCache, queues, log,
                   rootStatus, lastUpdate, ticks, blob, made, now, build>>

(* the machine record a root Tick starts from *)
Machine ==
    [stores |-> stores, cache |-> priorityCache, q |-> queues, log |-> <<>>,
     hist |-> lastUpdate, draws |-> 0, ret |-> UNDEFINED, pv |-> 0, err |-> ""]

(* the log of a root Tick; an exception that leaves root.Tick is its last  *)
(* entry: "Throw" 1, st = what() of the exception                         *)
Thrown(r) == IF r.err # "" THEN Append(r.log, Ev("Throw", 1, r.err, 0)) ELSE r.log

(* root.Tick(ctx) with a tree blob bound *)
RootTick ==
    /\ treeBlob # None
    /\ ticks < MaxTicks
    /\ \E r \in Tick(1, Machine) :
          /\ stores' = r.stores
          /\ priorityCache' = r.cache
          /\ queues' = r.q
          /\ log' = Thrown(r)
          /\ lastUpdate' = r.hist
          /\ rootStatus' = r.ret
    /\ ticks' = ticks + 1
    /\ UNCHANGED <<tree, stdlib, treeBlob, ctxSeq, blob, made, now, build>>

Next ==
    \/ \E e \in Entities : BindTreeBlob(e)
    \/ UnbindTreeBlob
    \/ NextSeq
    \/ RootTick

Spec == Init /\ [][Next]_vars

----------------------------------------------------------------------------
(* A tree blob used on its own, as tests/blob_test.cc Blob/1 does: calls   *)
(* of Make<B> for the node ids 1..NumNodes + 1 with records of 1 to        *)
(* MaxSizeNodeBlob + 1 bytes, and writes through the pointers returned.    *)

treeVars == <<tree, stdlib, treeBlob, ctxSeq, stores, priorityCache, queues, log,
              rootStatus, lastUpdate, ticks, now, build>>

Ids == 1..(NumNodes + 1)
Sizes == 1..(MaxSizeNodeBlob + 1)

BlobInit ==
    /\ InitTree({Sc(Flat("Sequence", <<S1>>, <<One>>), Gnu, E1)})
    /\ build = NoBuild
    /\ blob \in {NewBlob("fixed"), NewBlob("dynamic")}
    /\ made = NoMake

(* p = blob.Make<B>(id, cb) with sizeof(B) = size; a node id is always     *)
(* asked for with the same B                                               *)
MakeStep(id, size, cb) ==
    /\ blob.sz[id] \in {0, size}
    /\ \E r \in MakeB(blob, id, size, cb) :
          /\ blob' = r.b
          /\ made' = [id |-> id, size |-> size, cb |-> cb, p |-> r.p, calls |-> r.calls,
                      res |-> IF r.err # "" THEN "error"
                              ELSE IF r.fresh THEN "new" ELSE "old"]
    /\ UNCHANGED treeVars

(* the bytes of a record after p->lastStatus = Status::RUNNING and the     *)
(* like: every byte 1                                                      *)
PokeBytes(size) == [i \in 1..size |-> 1]

(* a write to the record of node id through the pointer Make returned *)
PokeStep(id) ==
    /\ blob.sz[id] > 0
    /\ blob' = Store(blob, BackendGet(blob, id - 1), PokeBytes(blob.sz[id]))
    /\ UNCHANGED <<made, treeVars>>

BlobNext ==
    \/ \E id \in Ids, size \in Sizes, cb \in BOOLEAN : MakeStep(id, size, cb)
    \/ \E id \in Ids : PokeStep(id)

BlobSpec == BlobInit /\ [][BlobNext]_vars

----------------------------------------------------------------------------
(* The decorators over a clock: bind a blob, tick the root, let time pass  *)
(* between two ticks.  A root tick takes no time on the clock.             *)

TimedInit ==
    /\ InitTree(TimedScenarios)
    /\ build = NoBuild
    /\ blob = NewBlob("dynamic")
    /\ made = NoMake

(* root.Tick(ctx) of a tree of TimedScenarios *)
TimedTick ==
    /\ treeBlob # None
    /\ ticks < MaxTimedTicks
    /\ \E r \in Tick(1, Machine) :
          /\ stores' = r.stores
          /\ priorityCache' = r.cache
          /\ queues' = r.q
          /\ log' = Thrown(r)
          /\ lastUpdate' = r.hist
          /\ rootStatus' = r.ret
    /\ ticks' = ticks + 1
    /\ UNCHANGED <<tree, stdlib, treeBlob, ctxSeq, blob, made, now, build>>

(* the steady clock moves on between two ticks *)
Advance ==
    /\ now < MaxTime
    /\ now' = now + 1
    /\ UNCHANGED <<tree, stdlib, treeBlob, ctxSeq, stores, priorityCache, queues, log,
                   rootStatus, lastUpdate, ticks, blob, made, build>>

TimedNext ==
    \/ \E e \in Entities : BindTreeBlob(e)
    \/ TimedTick
    \/ Advance

TimedSpec == TimedInit /\ [][TimedNext]_vars

----------------------------------------------------------------------------
(* Building a tree: Tree root("Root"), then a chain of builder calls that  *)
(* ends with End() or with the exception a call throws.                    *)

progVars == <<tree, stdlib, treeBlob, ctxSeq, stores, priorityCache, queues, log,
              rootStatus, lastUpdate, ticks, blob, made, now>>

BuildInit ==
    /\ InitTree({Sc(Flat("Sequence", <<S1>>, <<One>>), Gnu, E1)})
    /\ blob = NewBlob("dynamic")
    /\ made = NoMake
    /\ build = BindRoot

Building == build.err = "" /\ ~build.ended

(* one call of the chain; a call that would make more than MaxBuildNodes   *)
(* nodes is left out                                                       *)
BuildStep(b) ==
    /\ Building
    /\ Len(b.nodes) <= MaxBuildNodes
    /\ build' = b
    /\ UNCHANGED progVars

(* ._() : one level deeper than the stack holds throws at the next attach, *)
(* two levels deeper throws the same                                       *)
Indent == build.level <= Len(build.stack) /\ BuildStep(BuilderIndent(build))
AttachC == \E kind \in {"Sequence", "Invert", "Action"} : BuildStep(BuilderC(build, kind))
AttachM == BuildStep(BuilderM(build, "Action"))
AttachIf == BuildStep(BuilderIf(build))
AttachNot == BuildStep(BuilderNot(build))
AttachSubtree == \E s \in Subtrees : BuildStep(BuilderSubtree(build, s))
EndBuild == BuildStep(BuilderEnd(build))

BuildNext ==
    \/ Indent
    \/ AttachC
    \/ AttachM
    \/ AttachIf
    \/ AttachNot
    \/ AttachSubtree
    \/ EndBuild

BuildSpec == BuildInit /\ [][BuildNext]_vars

----------------------------------------------------------------------------
(* The tick loop (RootNode::TickForever, the loops of the tests): ++ctx.seq *)
(* and root.Tick(ctx), over and over, on composites whose children stop    *)
(* early and change their priorities from one seq to the next.             *)

RF == {RUNNING, FAILURE}

LoopScenarios ==
    { Sc(Flat(k, <<RF, RF, RF>>, <<OneTwo, One, One>>), Gnu, E1)
      : k \in {"Selector", "StatefulSelector"} }

LoopInit ==
    /\ InitTree(LoopScenarios)
    /\ build = NoBuild
    /\ blob = NewBlob("dynamic")
    /\ made = NoMake

(* ++ctx.seq *)
LoopSeq ==
    /\ ctxSeq < MaxLoops
    /\ ctxSeq' = ctxSeq + 1
    /\ UNCHANGED <<tree, stdlib, treeBlob, stores, priorityCache, queues, log,
                   rootStatus, lastUpdate, ticks, blob, made, now, build>>

(* Tick(ctx) *)
LoopTick ==
    /\ treeBlob # None
    /\ ticks < MaxLoops
    /\ \E r \in Tick(1, Machine) :
          /\ stores' = r.stores
          /\ priorityCache' = r.cache
          /\ queues' = r.q
          /\ log' = Thrown(r)
          /\ lastUpdate' = r.hist
          /\ rootStatus' = r.ret
    /\ ticks' = ticks + 1
    /\ UNCHANGED <<tree, stdlib, treeBlob, ctxSeq, blob, made, now, build>>

LoopNext ==
    \/ \E e \in Entities : BindTreeBlob(e)
    \/ LoopSeq
    \/ LoopTick

LoopSpec == LoopInit /\ [][LoopNext]_vars

----------------------------------------------------------------------------
(* Reading the call log *)

LogIdx == 1..Len(log)
KidSet(n) == {tree.kids[n][i] : i \in 1..NumKids(n)}
ChildIndex(n, c) == CHOOSE i \in 0..(NumKids(n) - 1) : Child(n, i) = c

(* the position of the TickEnd that closes the Tick logged at position k *)
TickEndOf(k) ==
    CHOOSE j \in LogIdx :
        /\ j > k /\ log[j].ev = "TickEnd" /\ log[j].n = log[k].n
        /\ \A i \in (k + 1)..(j - 1) : ~(log[i].ev = "TickEnd" /\ log[i].n = log[k].n)

(* number of OnEnter calls on node n between log positions a and b *)
EntersIn(n, a, b) == Cardinality({i \in a..b : log[i].ev = "OnEnter" /\ log[i].n = n})

(* the Update logged at position j was called by Node::Tick *)
CalledByTick(j) ==
    /\ j > 1
    /\ log[j - 1].n = log[j].n
    /\ log[j - 1].ev \in {"Tick", "OnEnter"}

----------------------------------------------------------------------------
(* C1: a Tick issued while the blob has running = false calls OnEnter      *)
(* exactly once and before Update; a Tick issued while running = true      *)
(* does not call OnEnter.                                                  *)
C1_OnEnterOncePerRound ==
    \A k \in LogIdx :
        log[k].ev = "Tick" =>
            /\ k + 2 <= Len(log)
            /\ IF log[k].x = 0
               THEN /\ log[k + 1] = Ev("OnEnter", log[k].n, "-", 0)
                    /\ log[k + 2] = Ev("Update", log[k].n, "-", 0)
                    /\ EntersIn(log[k].n, k, TickEndOf(k)) = 1
               ELSE /\ log[k + 1] = Ev("Update", log[k].n, "-", 0)
                    /\ EntersIn(log[k].n, k, TickEndOf(k)) = 0

(* one root tick in which a node is entered and another node, still        *)
(* running from an earlier tick, is ticked again                           *)
C1_Witness ==
    \E j, k \in LogIdx :
        /\ log[j].ev = "Tick" /\ log[j].x = 1 /\ log[j].n # 1
        /\ log[k].ev = "Tick" /\ log[k].x = 0 /\ log[k].n # 1
        /\ ticks >= 2

(* C2: in a Tick whose Update returns SUCCESS or FAILURE, OnTerminate is   *)
(* called exactly once, after Update and with that status, and running is  *)
(* false when Tick returns; in a Tick whose Update returns RUNNING,        *)
(* OnTerminate is not called and running is true when Tick returns.        *)
C2_OnTerminateOncePerRound ==
    /\ \A k \in LogIdx :
          (log[k].ev = "UpdateRet" /\ CalledByTick(log[k].x)) =>
              IF log[k].st \in {SUCCESS, FAILURE}
              THEN /\ k + 2 <= Len(log)
                   /\ log[k + 1] = Ev("OnTerminate", log[k].n, log[k].st, 0)
                   /\ log[k + 2] = Ev("TickEnd", log[k].n, log[k].st, 0)
              ELSE /\ k + 1 <= Len(log)
                   /\ log[k + 1] = Ev("TickEnd", log[k].n, RUNNING, 1)
    /\ \A k \in LogIdx :
          log[k].ev = "OnTerminate" =>
              /\ k > 1
              /\ log[k - 1].ev = "UpdateRet" /\ log[k - 1].n = log[k].n
              /\ log[k - 1].st = log[k].st

(* one root tick in which one node ends its round with SUCCESS, one with   *)
(* FAILURE and one stays RUNNING                                           *)
C2_Witness ==
    \E i, j, k \in LogIdx :
        /\ log[i] = Ev("TickEnd", log[i].n, SUCCESS, 0)
        /\ log[j] = Ev("TickEnd", log[j].n, FAILURE, 0)
        /\ log[k] = Ev("TickEnd", log[k].n, RUNNING, 1)

(* C3 as stated: for every node and entity, the blob holds the status and  *)
(* the seq of the last execution of the node's Update for that entity.     *)
C3_LastUpdateInBlob ==
    \A e \in Entities, n \in Nodes :
        lastUpdate[e][n].st # UNDEFINED =>
            /\ stores[e][n].exist
            /\ stores[e][n].lastStatus = lastUpdate[e][n].st
            /\ stores[e][n].lastSeq = lastUpdate[e][n].seq

(* the direct child of a ForceSuccess or ForceFailure decorator *)
IsForceChild(n) == \E d \in Nodes : Kind(d) \in ForceKinds /\ Child(d, 0) = n

(* C3 amended: the same for every node that is not the direct child of a   *)
(* ForceSuccess or ForceFailure decorator (whose Update runs without Tick) *)
C3_LastTickInBlob ==
    \A e \in Entities, n \in Nodes :
        (lastUpdate[e][n].st # UNDEFINED /\ ~IsForceChild(n)) =>
            /\ stores[e][n].exist
            /\ stores[e][n].lastStatus = lastUpdate[e][n].st
            /\ stores[e][n].lastSeq = lastUpdate[e][n].seq

(* two nodes of one entity last updated in different root ticks, with      *)
(* different sequence numbers and different results                        *)
C3_Witness ==
    \E e \in Entities, n, n2 \in Nodes :
        /\ ~IsForceChild(n) /\ ~IsForceChild(n2)
        /\ lastUpdate[e][n].st = RUNNING /\ lastUpdate[e][n].seq = 0
        /\ lastUpdate[e][n2].st = FAILURE /\ lastUpdate[e][n2].seq = 1
        /\ stores[e][n].lastSeq = 0 /\ stores[e][n2].lastSeq = 1

(* C4: what an entity's tick does depends only on the entity's own blobs   *)
(* and on the leaf results and priorities offered during its own ticks:    *)
(* a priority that can differ from call to call is never taken from a      *)
(* value computed during the tick of another entity.                       *)
C4_PriorityFromOwnTick ==
    \A k \in LogIdx :
        (/\ log[k].ev = "Memo"
         /\ Kind(log[k].n) \in LeafKinds
         /\ Cardinality(tree.pris[log[k].n]) > 1)
        => log[k].y = 1

----------------------------------------------------------------------------
(* One Update of a composite, read from the log: k is the position of its  *)
(* UpdateRet.                                                              *)

Span(k) == SubSeq(log, log[k].x, k)
IsChildEnd(k, e) == e.ev = "TickEnd" /\ e.n \in KidSet(log[k].n)
IsOwn(k, ev, e) == e.ev = ev /\ e.n = log[k].n

(* the results of the direct children ticked, in order *)
ChildEnds(k) == SelectSeq(Span(k), LAMBDA e : IsChildEnd(k, e))
(* the child indexes popped from the queue, in order *)
Pops(k) == SelectSeq(Span(k), LAMBDA e : IsOwn(k, "Pop", e))
(* the child indexes the random selector drew, in order *)
Draws(k) == SelectSeq(Span(k), LAMBDA e : IsOwn(k, "Draw", e))
(* the considerable children with the priority refreshed for each *)
Considered(k) == SelectSeq(Span(k), LAMBDA e : IsOwn(k, "Consider", e))
ConsideredSet(k) == {Considered(k)[i].x : i \in 1..Len(Considered(k))}
TickedSet(k) == {ChildIndex(log[k].n, ChildEnds(k)[i].n) : i \in 1..Len(ChildEnds(k))}
AllEqualAt(k) == \E i \in 1..Len(Span(k)) : Span(k)[i] = Ev("Enqueue", log[k].n, "-", 1)

UpdatesOf(kinds) == {k \in LogIdx : log[k].ev = "UpdateRet" /\ Kind(log[k].n) \in kinds}

(* every child tick is the tick of the child just popped, no child twice *)
OneAtATime(k) ==
    LET T == ChildEnds(k)
        P == Pops(k)
    IN /\ Len(P) = Len(T)
       /\ \A i \in 1..Len(T) : T[i].n = Child(log[k].n, P[i].x) /\ P[i].x \in ConsideredSet(k)
       /\ \A i, j \in 1..Len(T) : i # j => T[i].n # T[j].n

(* C5: a Sequence ticks its considerable children one at a time in queue   *)
(* order, stops at the first RUNNING or FAILURE child and returns that     *)
(* status, returns SUCCESS only if every considered child succeeded; a     *)
(* non-stateful Sequence starts from the first child on every tick.        *)
C5_Sequence ==
    \A k \in UpdatesOf(SequenceKinds) :
        LET T == ChildEnds(k) IN
        /\ OneAtATime(k)
        /\ \A i \in 1..(Len(T) - 1) : T[i].st = SUCCESS
        /\ log[k].st = (IF T # <<>> /\ T[Len(T)].st # SUCCESS THEN T[Len(T)].st ELSE SUCCESS)
        /\ log[k].st = SUCCESS => TickedSet(k) = ConsideredSet(k)
        /\ Kind(log[k].n) = "Sequence" =>
              /\ ConsideredSet(k) = 0..(NumKids(log[k].n) - 1)
              /\ T # <<>>
              /\ AllEqualAt(k) => T[1].n = Child(log[k].n, 0)

(* a non-stateful Sequence whose first child was left RUNNING by the tick  *)
(* before ticks it again, then a second child, and stops at its FAILURE    *)
C5_Witness ==
    \E k \in UpdatesOf({"Sequence"}) :
        /\ ticks >= 2
        /\ Len(ChildEnds(k)) = 2 /\ NumKids(log[k].n) = 3
        /\ ChildEnds(k)[2].st = FAILURE
        /\ \E j \in LogIdx : log[j] = Ev("Tick", Child(log[k].n, 0), "-", 1)

(* C6: a Selector ticks its considerable children one at a time in queue   *)
(* order, stops at the first RUNNING or SUCCESS child and returns that     *)
(* status, and returns FAILURE only if every considered child failed.      *)
C6_Selector ==
    \A k \in UpdatesOf(SelectorKinds) :
        LET T == ChildEnds(k) IN
        /\ OneAtATime(k)
        /\ \A i \in 1..(Len(T) - 1) : T[i].st = FAILURE
        /\ log[k].st = (IF T # <<>> /\ T[Len(T)].st # FAILURE THEN T[Len(T)].st ELSE FAILURE)
        /\ log[k].st = FAILURE => TickedSet(k) = ConsideredSet(k)

(* Selector[A,B,..]: A fails, B succeeds, the later child is not ticked *)
C6_Witness ==
    \E k \in UpdatesOf(SelectorKinds) :
        /\ Len(ChildEnds(k)) = 2 /\ NumKids(log[k].n) = 3
        /\ ChildEnds(k)[1].st = FAILURE /\ ChildEnds(k)[2].st = SUCCESS
        /\ log[k].st = SUCCESS

(* C7: a Parallel ticks every considerable child exactly once whatever the *)
(* other children return, then returns SUCCESS iff all ticked children     *)
(* succeeded, else FAILURE if one failed, else RUNNING.                    *)
C7_Parallel ==
    \A k \in UpdatesOf(ParallelKinds) :
        LET T == ChildEnds(k)
            sts == {T[i].st : i \in 1..Len(T)}
        IN /\ OneAtATime(k)
           /\ TickedSet(k) = ConsideredSet(k)
           /\ log[k].st = (IF sts \subseteq {SUCCESS} THEN SUCCESS
                           ELSE IF FAILURE \in sts THEN FAILURE
                           ELSE RUNNING)

(* Parallel[A,B,C]: the first child fails, the others are still ticked,    *)
(* one of them stays RUNNING, and the Parallel fails                       *)
C7_Witness ==
    \E k \in UpdatesOf(ParallelKinds) :
        /\ Len(ChildEnds(k)) = 3
        /\ ChildEnds(k)[1].st = FAILURE
        /\ \E i \in 2..3 : ChildEnds(k)[i].st = RUNNING
        /\ \E i \in 2..3 : ChildEnds(k)[i].st = SUCCESS
        /\ log[k].st = FAILURE

(* the considered child of highest priority, the lowest index among equals *)
Best(S) == CHOOSE a \in S : \A b \in S : a.y > b.y \/ (a.y = b.y /\ a.x <= b.x)

(* the child indexes of S by decreasing priority, then by increasing index *)
RECURSIVE ByPriority(_)
ByPriority(S) == IF S = {} THEN <<>> ELSE <<Best(S).x>> \o ByPriority(S \ {Best(S)})

ConsideredPairs(k) == {[x |-> Considered(k)[i].x, y |-> Considered(k)[i].y]
                       : i \in 1..Len(Considered(k))}

(* C8: when the considerable children of a Sequence, Selector or Parallel  *)
(* do not all have the same (positive) priority, they are visited by       *)
(* decreasing priority, children of equal priority in declaration order.   *)
C8_PriorityOrder ==
    \A k \in UpdatesOf(SequenceKinds \cup SelectorKinds \cup ParallelKinds) :
        LET S == ConsideredPairs(k)
            P == Pops(k)
        IN ((\A a \in S : a.y > 0) /\ (\E a, b \in S : a.y # b.y)) =>
               \A i \in 1..Len(P) : P[i].x = ByPriority(S)[i]

(* the children a random selector ticked in one Update, in order *)
NoChildTwice(k) ==
    \A i, j \in 1..Len(ChildEnds(k)) : i # j => ChildEnds(k)[i].n # ChildEnds(k)[j].n

(* C9: a RandomSelector samples without replacement within one tick: no    *)
(* child is ticked twice, and it returns FAILURE only after every          *)
(* considerable child of positive weight was ticked and failed.            *)
C9_WithoutReplacement ==
    \A k \in UpdatesOf(RandomKinds) :
        /\ NoChildTwice(k)
        /\ log[k].st = FAILURE =>
              \A c \in ConsideredPairs(k) :
                  c.y > 0 => \E i \in 1..Len(ChildEnds(k)) :
                                 /\ ChildEnds(k)[i].n = Child(log[k].n, c.x)
                                 /\ ChildEnds(k)[i].st = FAILURE

(* C10: a RandomSelector never ticks a child whose priority on this tick   *)
(* is 0.                                                                   *)
C10_ZeroWeightNeverTicked ==
    \A k \in UpdatesOf(RandomKinds) :
        \A c \in ConsideredPairs(k) : c.y = 0 => c.x \notin TickedSet(k)

----------------------------------------------------------------------------
(* Rounds of a stateful composite, read over the steps of the tree.        *)

(* the nodes ticked in the root tick the log holds *)
TickedNodes == {log[k].n : k \in {j \in LogIdx : log[j].ev = "Tick"}}
(* the nodes whose OnTerminate ran in the root tick the log holds *)
TerminatedNodes == {log[k].n : k \in {j \in LogIdx : log[j].ev = "OnTerminate"}}
(* the stateful composites with their child indexes *)
StatefulKids == {c \in Nodes \X (0..(N - 1)) : IsStateful(c[1]) /\ c[2] < NumKids(c[1])}
(* child i of the stateful composite n is skipped for entity e *)
Skipped(e, n, i) == stores[e][n].exist /\ stores[e][n].st[i + 1]

(* C11: a child whose skip flag is set for an entity is not ticked by a    *)
(* root tick for that entity, whatever priorities the children report,     *)
(* and the flag goes away only in a root tick for that entity in which     *)
(* the composite's own OnTerminate ran.                                    *)
C11_SkippedNotTicked ==
    [][\A e \in Entities, c \in StatefulKids :
          Skipped(e, c[1], c[2]) =>
              /\ (treeBlob = e /\ ticks' = ticks + 1) => Child(c[1], c[2]) \notin TickedNodes'
              /\ ~Skipped(e, c[1], c[2])' =>
                    treeBlob = e /\ ticks' = ticks + 1 /\ c[1] \in TerminatedNodes']_vars

(* a stateful composite that was left running is ticked again with one     *)
(* child skipped and not ticked, another child ticked                      *)
C11_Witness ==
    \E c \in StatefulKids :
        /\ treeBlob # None /\ Skipped(treeBlob, c[1], c[2])
        /\ \E k \in LogIdx : log[k] = Ev("Tick", c[1], "-", 1)
        /\ Child(c[1], c[2]) \notin TickedNodes
        /\ KidSet(c[1]) \cap TickedNodes # {}
        /\ \E d \in KidSet(c[1]) : Cardinality(tree.pris[d]) > 1

(* the Tick of node n that the log holds returned SUCCESS or FAILURE *)
EndedRound(n) ==
    \E k \in LogIdx : log[k].ev = "TickEnd" /\ log[k].n = n /\ log[k].st \in {SUCCESS, FAILURE}

(* the Update of the composite n that the log holds considered every child *)
(* and, unless it draws at random, started with the first one in order     *)
FreshRound(n) ==
    \A k \in UpdatesOf(StatefulKinds) :
        log[k].n = n =>
            /\ ConsideredSet(k) = 0..(NumKids(n) - 1)
            /\ Kind(n) \notin RandomKinds =>
                  /\ Pops(k) # <<>>
                  /\ Pops(k)[1].x = Best(ConsideredPairs(k)).x
                  /\ AllEqualAt(k) => Pops(k)[1].x = 0

(* C12: when the Tick of a stateful composite returns SUCCESS or FAILURE   *)
(* its skip set for the entity is all clear, and the next Tick of the      *)
(* composite for that entity considers every child again, starting with    *)
(* the first one in order.                                                 *)
C12_RoundRestartsClean ==
    [][(treeBlob # None /\ ticks' = ticks + 1) =>
          \A n \in {c \in Nodes : IsStateful(c)} :
              /\ EndedRound(n)' =>
                    \A i \in 0..(NumKids(n) - 1) : ~Skipped(treeBlob, n, i)'
              /\ (/\ stores[treeBlob][n].lastStatus \in {SUCCESS, FAILURE}
                  /\ n \in TickedNodes') => FreshRound(n)']_vars

(* a StatefulSequence whose round ended in the FAILURE of its second child *)
(* (the first one skipped by then) starts over with its first child        *)
C12_Witness ==
    \E e \in Entities, n \in Nodes :
        /\ Kind(n) = "StatefulSequence" /\ ticks >= 2
        /\ \E k \in LogIdx : log[k] = Ev("Tick", n, "-", 0)
        /\ Child(n, 0) \in TickedNodes /\ Child(n, 1) \notin TickedNodes
        /\ lastUpdate[e][Child(n, 1)].st = FAILURE
        /\ lastUpdate[e][Child(n, 0)].st = RUNNING
        /\ treeBlob = e

(* the status of a child that makes a stateful composite skip it *)
SkipStatus(n) ==
    IF Kind(n) \in {"StatefulSequence", "StatefulParallel"} THEN SUCCESS ELSE FAILURE

(* the child indexes Skip was called with during the Update that returned  *)
(* at log position k, in order                                             *)
Skips(k) == SelectSeq(Span(k), LAMBDA e : IsOwn(k, "Skip", e))
(* the children that returned during that Update with the status that      *)
(* makes the composite skip them, in order                                 *)
SkipEnds(k) == SelectSeq(ChildEnds(k), LAMBDA e : e.st = SkipStatus(log[k].n))

(* Skip is called on a child exactly when the child returned the status    *)
(* that its stateful composite skips                                       *)
SkipsMatchEnds ==
    /\ \A j \in LogIdx : log[j].ev = "Skip" => IsStateful(log[j].n)
    /\ \A k \in UpdatesOf(StatefulKinds) :
          /\ Len(Skips(k)) = Len(SkipEnds(k))
          /\ \A i \in 1..Len(Skips(k)) :
                Child(log[k].n, Skips(k)[i].x) = SkipEnds(k)[i].n

(* Skip(n, i) was called in the root tick the log holds *)
SkipCalled(n, i) == \E j \in LogIdx : log[j] = Ev("Skip", n, "-", i)

(* C13: a child's skip flag is set exactly when the child returns SUCCESS  *)
(* under a StatefulSequence or StatefulParallel, FAILURE under a           *)
(* StatefulSelector or StatefulRandomSelector; RUNNING and the opposite    *)
(* terminal status never set it.                                           *)
C13_SkipOnOwnStatus ==
    [][(treeBlob # None /\ ticks' = ticks + 1) =>
          /\ SkipsMatchEnds'
          /\ \A c \in StatefulKids :
                Skipped(treeBlob, c[1], c[2])' <=>
                    /\ c[1] \notin TerminatedNodes'
                    /\ Skipped(treeBlob, c[1], c[2]) \/ SkipCalled(c[1], c[2])']_vars

(* a StatefulParallel stays RUNNING: the child that succeeded is skipped,  *)
(* a child that is still RUNNING is not                                    *)
C13_Witness ==
    \E k \in UpdatesOf({"StatefulParallel"}) :
        /\ log[k].st = RUNNING /\ treeBlob # None
        /\ Len(Skips(k)) = 1 /\ Len(ChildEnds(k)) = 3
        /\ Skipped(treeBlob, log[k].n, Skips(k)[1].x)
        /\ \E i \in 0..2 : ~Skipped(treeBlob, log[k].n, i)

(* the status the Update of node n returned in the root tick the log holds *)
Returned(n) ==
    IF \E k \in LogIdx : log[k].ev = "UpdateRet" /\ log[k].n = n
    THEN log[CHOOSE k \in LogIdx : log[k].ev = "UpdateRet" /\ log[k].n = n].st
    ELSE None

(* the indexes of the children of n whose Tick returned st in that root tick *)
KidsEnded(n, st) ==
    {i \in 0..(NumKids(n) - 1) :
        \E k \in LogIdx : log[k].ev = "TickEnd" /\ log[k].n = Child(n, i) /\ log[k].st = st}

(* C14: a tick of a StatefulParallel returns SUCCESS only when every child *)
(* has returned SUCCESS in this tick or in an earlier tick of the round    *)
(* (and was not ticked again after that); it returns FAILURE, ending the   *)
(* round, exactly when a child still pending returns FAILURE in this tick. *)
C14_StatefulParallelRound ==
    [][(treeBlob # None /\ ticks' = ticks + 1) =>
          \A n \in {c \in Nodes : Kind(c) = "StatefulParallel"} :
              n \in TickedNodes' =>
                  LET before == {i \in 0..(NumKids(n) - 1) : Skipped(treeBlob, n, i)} IN
                  /\ \A i \in before :
                        /\ stores[treeBlob][n].running
                        /\ lastUpdate[treeBlob][Child(n, i)].st = SUCCESS
                        /\ Child(n, i) \notin TickedNodes'
                  /\ Returned(n)' = SUCCESS =>
                        before \cup KidsEnded(n, SUCCESS)' = 0..(NumKids(n) - 1)
                  /\ Returned(n)' = FAILURE <=> KidsEnded(n, FAILURE)' # {}
                  /\ Returned(n)' \in {SUCCESS, FAILURE} => EndedRound(n)'
                  /\ Returned(n)' = RUNNING =>
                        \A i \in KidsEnded(n, SUCCESS)' : Skipped(treeBlob, n, i)']_vars

(* a round of a StatefulParallel that took more than one tick ends with    *)
(* SUCCESS: the last tick ticks only the children still pending            *)
C14_Witness ==
    \E k \in UpdatesOf({"StatefulParallel"}) :
        /\ log[k].st = SUCCESS
        /\ \E j \in LogIdx : log[j] = Ev("Tick", log[k].n, "-", 1)
        /\ Len(ChildEnds(k)) < NumKids(log[k].n)
        /\ Len(ChildEnds(k)) > 0

----------------------------------------------------------------------------
(* Make<B> on a tree blob of either backend *)

(* the backend can hold a record for the node id *)
InRange(id) == blob.backend = "dynamic" \/ id <= NumNodes
(* the node ids that have a record *)
MadeIds == {id \in Ids : blob.sz[id] > 0}
(* the pointer to, and the bytes of, the record of a node id that has one *)
RecordPtr(id) == BackendGet(blob, id - 1)
RecordBytes(id) == Load(blob, RecordPtr(id), blob.sz[id])

(* C15: for both backends, the first Make<B>(id) on a store creates a      *)
(* default-constructed record and invokes the callback exactly once; a     *)
(* later Make<B>(id) returns the same record, its contents unchanged, and  *)
(* does not invoke the callback.  (No record is created where Make         *)
(* throws, and no callback is invoked where none is given.)                *)
C15_MakeIdempotent ==
    [][\A id \in Ids :
        (made' # made /\ made'.id = id /\ InRange(id) /\ made'.res # "error") =>
          /\ IF blob.sz[id] = 0
             THEN /\ made'.res = "new"
                  /\ made'.calls = (IF made'.cb THEN 1 ELSE 0)
                  /\ MadeIds' = MadeIds \cup {id}
                  /\ made'.p = RecordPtr(id)'
                  /\ RecordBytes(id)' = DefaultBytes(made'.size)
             ELSE /\ made'.res = "old"
                  /\ made'.calls = 0
                  /\ made'.p = RecordPtr(id)
                  /\ blob' = blob
          /\ \A other \in MadeIds \ {id} :
                /\ RecordPtr(other)' = RecordPtr(other)
                /\ RecordBytes(other)' = RecordBytes(other)]_vars

(* Make returned the record made earlier, with the bytes written to it     *)
(* since, while another node id has a record too                           *)
C15_Witness ==
    /\ made.res = "old" /\ blob.backend = "fixed"
    /\ RecordBytes(made.id) = PokeBytes(blob.sz[made.id])
    /\ Cardinality(MadeIds) = 2

(* C16: FixedTreeBlob::Make fails with a fatal error, and marks no slot as *)
(* existing, whenever the node id is beyond the NumNodes slots or the      *)
(* size of the record is greater than MaxSizeNodeBlob.                     *)
C16_FixedMakeFails ==
    [][(/\ made' # made
        /\ blob.backend = "fixed"
        /\ made'.id > NumNodes \/ made'.size > MaxSizeNodeBlob) =>
          /\ made'.res = "error"
          /\ blob' = blob]_vars

(* the byte offsets of buf that the record of node id occupies *)
RecordSpan(id) == {RecordPtr(id) + k : k \in 0..(blob.sz[id] - 1)}
(* the byte offset of the existence flag of slot idx, and the offsets of   *)
(* the payload bytes of the slot                                           *)
FlagAt(idx) == idx * RowLen
PayloadOf(idx) == {idx * RowLen + k : k \in 1..MaxSizeNodeBlob}

(* C17: in a FixedTreeBlob every id in 1..NumNodes with a record of at     *)
(* most MaxSizeNodeBlob bytes can be allocated; the record of id lies in   *)
(* the payload of slot id - 1, the first byte of the slot is its existence *)
(* flag, zero until the first Make for the id and non-zero from then on,   *)
(* and the records of distinct ids share no byte.                          *)
C17_FixedSlots ==
    blob.backend = "fixed" =>
        /\ (made.res = "error") =>
              (made.id > NumNodes \/ made.size > MaxSizeNodeBlob)
        /\ MadeIds \subseteq 1..NumNodes
        /\ \A id \in 1..NumNodes :
              /\ (blob.buf[FlagAt(id - 1) + 1] # 0) <=> (id \in MadeIds)
              /\ id \in MadeIds =>
                    /\ RecordPtr(id) = FlagAt(id - 1) + 1
                    /\ RecordSpan(id) \subseteq PayloadOf(id - 1)
        /\ \A id, other \in MadeIds :
              id # other => RecordSpan(id) \cap RecordSpan(other) = {}

(* every slot of a FixedTreeBlob holds a record of the greatest size, all  *)
(* of them written to                                                      *)
C17_Witness ==
    /\ blob.backend = "fixed"
    /\ MadeIds = 1..NumNodes
    /\ \A id \in MadeIds :
          blob.sz[id] = MaxSizeNodeBlob /\ RecordBytes(id) = PokeBytes(MaxSizeNodeBlob)


----------------------------------------------------------------------------
(* Evaluations of Node::Priority and uses of the memo, read from the log   *)

(* the positions where Priority of n was evaluated *)
Evals(n) == {k \in DOMAIN log : log[k].ev = "Priority" /\ log[k].n = n}
(* the positions where a query of n was answered, by evaluation or by memo *)
Queries(n) == {k \in DOMAIN log : log[k].ev \in {"Priority", "Memo"} /\ log[k].n = n}
(* before this tick, Priority of n was last evaluated at the current seq *)
EvaluatedThisSeq(n) == priorityCache[n].by # None /\ priorityCache[n].seq = ctxSeq
(* before this tick, Priority of n was last evaluated at another seq *)
EvaluatedOtherSeq(n) == priorityCache[n].by # None /\ priorityCache[n].seq # ctxSeq
FirstQueryEvaluates(n) == \A k \in Queries(n) : \E j \in Evals(n) : j <= k

(* C18 as stated: for every node, Priority is evaluated at most once       *)
(* among the queries made with one ctx.seq, whatever value it returns, and *)
(* the first query made with another ctx.seq evaluates it again.           *)
C18_EvaluatedOncePerSeq ==
    [][ticks' = ticks + 1 =>
         \A n \in Nodes :
             /\ Cardinality(Evals(n)') <= 1
             /\ EvaluatedThisSeq(n) => Evals(n)' = {}
             /\ EvaluatedOtherSeq(n) => FirstQueryEvaluates(n)']_vars

(* C18 amended: a node whose Priority returned a value larger than 0 at    *)
(* the current ctx.seq is not evaluated again at that ctx.seq, however     *)
(* many ancestors query it (a value of 0 is never memoized and is          *)
(* evaluated again on every query); the first query made with a different  *)
(* ctx.seq evaluates Priority again.                                       *)
C18_PositiveEvaluatedOncePerSeq ==
    [][ticks' = ticks + 1 =>
         \A n \in Nodes :
             /\ \A j, k \in Evals(n)' : j < k => log'[j].x = 0
             /\ (EvaluatedThisSeq(n) /\ priorityCache[n].v > 0) => Evals(n)' = {}
             /\ ~(EvaluatedThisSeq(n) /\ priorityCache[n].v > 0)
                    => FirstQueryEvaluates(n)']_vars

(* a node evaluated with a positive value and then asked twice more in one *)
(* tick at another seq: one evaluation, the second query takes the memo    *)
C18_Witness ==
    \E n \in Nodes :
        /\ ctxSeq = 1 /\ ticks >= 2
        /\ priorityCache[n].seq = 1 /\ priorityCache[n].v > 0
        /\ Cardinality(Evals(n)) = 1
        /\ Cardinality(Queries(n)) >= 2
        /\ \E e \in Entities : lastUpdate[e][n].st # UNDEFINED /\ lastUpdate[e][n].seq = 0


(* the priority of child i that composite n ordered by at position k was   *)
(* answered from the memo of an earlier tick of the entity now bound       *)
FromEarlierTick(k) ==
    LET d == Child(log[k].n, log[k].x) IN
    /\ \E j \in 1..k : log[j].ev = "Memo" /\ log[j].n = d /\ log[j].y = 1
    /\ \A j \in 1..k : ~(log[j].ev = "Priority" /\ log[j].n = d)

(* C19: a root tick orders the children of a Sequence, Selector or         *)
(* Parallel by the priorities Priority() returns during that tick: no      *)
(* child whose Priority() can change between two root ticks is ordered by  *)
(* the value it returned in the tick before.                               *)
C19_NextTickOrdersByNewPriorities ==
    \A k \in LogIdx :
        (/\ log[k].ev = "Consider"
         /\ Kind(log[k].n) \notin RandomKinds
         /\ Cardinality(tree.pris[Child(log[k].n, log[k].x)]) > 1)
        => ~FromEarlierTick(k)


----------------------------------------------------------------------------
(* One Update of an Invert node, read from the log                         *)

InvertRets == {k \in LogIdx : log[k].ev = "UpdateRet" /\ Kind(log[k].n) = "Invert"}
(* the ticks of node d inside the Update that returned at position k *)
TicksIn(k, d) == {j \in log[k].x..k : log[j].ev = "Tick" /\ log[j].n = d}
TickEndsIn(k, d) == {j \in log[k].x..k : log[j].ev = "TickEnd" /\ log[j].n = d}

(* C20: every Update of an Invert ticks its child exactly once and returns *)
(* SUCCESS for a child's FAILURE, FAILURE for a child's SUCCESS and        *)
(* RUNNING for RUNNING; an Invert over an Invert over X returns the status *)
(* X returned in that tick.                                                *)
C20_InvertSwaps ==
    \A k \in InvertRets :
        LET d == Child(log[k].n, 0) IN
        /\ Cardinality(TicksIn(k, d)) = 1
        /\ Cardinality(TickEndsIn(k, d)) = 1
        /\ \A j \in TickEndsIn(k, d) :
              /\ log[j].st = FAILURE => log[k].st = SUCCESS
              /\ log[j].st = SUCCESS => log[k].st = FAILURE
              /\ log[j].st = RUNNING => log[k].st = RUNNING
        /\ Kind(d) = "Invert" =>
              /\ Cardinality(TickEndsIn(k, Child(d, 0))) = 1
              /\ \A j \in TickEndsIn(k, Child(d, 0)) : log[k].st = log[j].st

(* an Invert over an Invert over X, X running in one tick and succeeding   *)
(* in the next: the outer Invert returns SUCCESS                           *)
C20_Witness ==
    \E k \in InvertRets :
        LET d == Child(log[k].n, 0) IN
        /\ Kind(d) = "Invert"
        /\ ticks = 2
        /\ log[k].st = SUCCESS
        /\ \E j \in TickEndsIn(k, d) : log[j].st = FAILURE
        /\ \E j \in TickEndsIn(k, Child(d, 0)) : log[j].st = SUCCESS /\ log[j - 1].ev = "OnTerminate"


----------------------------------------------------------------------------
(* One Update of a decorator, read from the log: k is the position of its  *)
(* UpdateRet, d a node below it                                            *)

RetsOf(kind) == {k \in LogIdx : log[k].ev = "UpdateRet" /\ Kind(log[k].n) = kind}
(* the status the one tick of d inside the Update returned *)
EndStatus(k, d) == log[CHOOSE j \in TickEndsIn(k, d) : TRUE].st
Ticked(k, d) == TicksIn(k, d) # {}
TickedOnce(k, d) == Cardinality(TicksIn(k, d)) = 1 /\ Cardinality(TickEndsIn(k, d)) = 1

(* C21: every Update of a ConditionalRun ticks its condition once; it      *)
(* ticks the child (once) exactly when the condition returned SUCCESS in   *)
(* this tick and then returns the child's status; otherwise it returns     *)
(* FAILURE and the child is not ticked, running or not.                    *)
C21_ConditionalRun ==
    \A k \in RetsOf("ConditionalRun") :
        LET child == Child(log[k].n, 0)
            condition == Child(log[k].n, 1)
        IN /\ TickedOnce(k, condition)
           /\ Ticked(k, child) <=> EndStatus(k, condition) = SUCCESS
           /\ Ticked(k, child) => TickedOnce(k, child) /\ log[k].st = EndStatus(k, child)
           /\ ~Ticked(k, child) => log[k].st = FAILURE

(* the child was left RUNNING by an earlier tick, the condition fails now: *)
(* FAILURE, the child not ticked and still marked running                  *)
C21_Witness ==
    \E k \in RetsOf("ConditionalRun"), e \in Entities :
        LET child == Child(log[k].n, 0) IN
        /\ ticks >= 2
        /\ stores[e][child].running /\ stores[e][child].lastStatus = RUNNING
        /\ ~Ticked(k, child)
        /\ log[k].st = FAILURE


(* the nodes of a kind, and the successes (or failures) of the child that  *)
(* a counting decorator n has seen in its round before this tick: its      *)
(* counter if the round is under way, 0 if this tick starts a round        *)
NodesOf(kind) == {n \in Nodes : Kind(n) = kind}
CountBefore(n) ==
    IF treeBlob # None /\ stores[treeBlob][n].running THEN stores[treeBlob][n].cnt ELSE 0
(* the position of the UpdateRet of n in the log, 0 if n was not updated *)
RetOf(n) ==
    IF \E k \in LogIdx : log[k].ev = "UpdateRet" /\ log[k].n = n
    THEN CHOOSE k \in LogIdx : log[k].ev = "UpdateRet" /\ log[k].n = n
    ELSE 0

(* C22: a tick of Repeat(n), n > 0, ticks the child once.  With c child    *)
(* successes in the round so far (0 when the tick starts a round): a       *)
(* RUNNING child gives RUNNING and leaves the count, a child SUCCESS gives *)
(* SUCCESS when it is the n-th and RUNNING with the count c + 1 before,    *)
(* and SUCCESS is returned in no other case; when the round has ended the  *)
(* counter is 0 again.                                                     *)
C22_RepeatCounts ==
    [][ticks' = ticks + 1 =>
         \A n \in NodesOf("Repeat") :
             (Arg(n) > 0 /\ RetOf(n)' # 0) =>
                 LET child == Child(n, 0)
                     c == CountBefore(n)
                 IN /\ TickedOnce(RetOf(n), child)'
                    /\ EndStatus(RetOf(n), child)' = RUNNING =>
                          /\ log'[RetOf(n)'].st = RUNNING
                          /\ stores'[treeBlob][n].cnt = c
                    /\ EndStatus(RetOf(n), child)' = SUCCESS =>
                          /\ c + 1 = Arg(n) => log'[RetOf(n)'].st = SUCCESS
                          /\ c + 1 < Arg(n) =>
                                /\ log'[RetOf(n)'].st = RUNNING
                                /\ stores'[treeBlob][n].cnt = c + 1
                    /\ log'[RetOf(n)'].st = SUCCESS =>
                          EndStatus(RetOf(n), child)' = SUCCESS /\ c + 1 = Arg(n)
                    /\ c < Arg(n)
                    /\ ~stores'[treeBlob][n].running => stores'[treeBlob][n].cnt = 0]_vars

(* Repeat(2) in its second round: the fourth tick returns SUCCESS after    *)
(* the third returned RUNNING on the child's first success of that round   *)
C22_Witness ==
    \E n \in NodesOf("Repeat"), e \in Entities :
        /\ Arg(n) = 2 /\ ticks = 4
        /\ RetOf(n) # 0 /\ log[RetOf(n)].st = SUCCESS
        /\ EndStatus(RetOf(n), Child(n, 0)) = SUCCESS
        /\ ~stores[e][n].running /\ stores[e][n].cnt = 0


(* C23: Repeat(0) returns SUCCESS without ticking its child; Repeat(-1)    *)
(* never returns SUCCESS and returns RUNNING when its child succeeds; for  *)
(* every n other than 0 a FAILURE of the child is returned as FAILURE in   *)
(* the same tick.                                                          *)
C23_RepeatSpecialCounts ==
    \A k \in RetsOf("Repeat") :
        LET n == log[k].n
            child == Child(n, 0)
        IN /\ Arg(n) = 0 => log[k].st = SUCCESS /\ ~Ticked(k, child)
           /\ Arg(n) = -1 =>
                 /\ log[k].st # SUCCESS
                 /\ EndStatus(k, child) = SUCCESS => log[k].st = RUNNING
           /\ (Arg(n) # 0 /\ EndStatus(k, child) = FAILURE) => log[k].st = FAILURE

(* Repeat(-1) still RUNNING in the tick of its child's third success *)
C23_Witness ==
    \E k \in RetsOf("Repeat"), e \in Entities :
        /\ Arg(log[k].n) = -1
        /\ stores[e][log[k].n].cnt = 3
        /\ EndStatus(k, Child(log[k].n, 0)) = SUCCESS
        /\ log[k].st = RUNNING


ClockOf(n) == log[CHOOSE k \in LogIdx : log[k].ev = "Clock" /\ log[k].n = n].x
(* in the last tick the child of Retry n failed and the round goes on *)
FailedAndRetrying(n) ==
    /\ RetOf(n) # 0
    /\ log[RetOf(n)].st = RUNNING
    /\ Ticked(RetOf(n), Child(n, 0))
    /\ EndStatus(RetOf(n), Child(n, 0)) = FAILURE

(* C25: when the child of a Retry failed at time t and the round goes on,  *)
(* a tick that comes before t + interval returns RUNNING and does not tick *)
(* the child.                                                              *)
C25_RetryWaitsInterval ==
    [][ticks' = ticks + 1 =>
         \A n \in NodesOf("Retry") :
             (FailedAndRetrying(n) /\ now < ClockOf(n) + Interval(n)) =>
                 /\ RetOf(n)' # 0
                 /\ log'[RetOf(n)'].st = RUNNING
                 /\ ~Ticked(RetOf(n), Child(n, 0))']_vars


(* this tick called OnEnter of n: it started a round of n *)
Entered(n) == \E k \in LogIdx : log[k].ev = "OnEnter" /\ log[k].n = n
ClockAt(n) == CHOOSE k \in LogIdx : log[k].ev = "Clock" /\ log[k].n = n
(* the start time of the round of n that a tick made now belongs to: the   *)
(* time in the blob if the round is under way, now if the tick starts one  *)
StartOfRound(n, at) ==
    IF treeBlob # None /\ stores[treeBlob][n].running THEN at ELSE now

(* C26: a tick of Timeout(d) at time now, in a round that started at       *)
(* start (the time of the tick that called OnEnter): it returns FAILURE    *)
(* without ticking the child if and only if now > start + d, and ticks the *)
(* child once and returns its status otherwise; the start time kept in the *)
(* blob is that of the round's own OnEnter.                                *)
C26_TimeoutDeadline ==
    [][ticks' = ticks + 1 =>
         \A n \in NodesOf("Timeout") :
             RetOf(n)' # 0 =>
                 LET child == Child(n, 0)
                     start == StartOfRound(n, stores[treeBlob][n].startAt)
                 IN /\ stores'[treeBlob][n].startAt = start
                    /\ Entered(n)' <=> ~stores[treeBlob][n].running
                    /\ ~Ticked(RetOf(n), child)' <=> now > start + Arg(n)
                    /\ ~Ticked(RetOf(n), child)' => log'[RetOf(n)'].st = FAILURE
                    /\ Ticked(RetOf(n), child)' =>
                          /\ TickedOnce(RetOf(n), child)'
                          /\ log'[RetOf(n)'].st = EndStatus(RetOf(n), child)']_vars

(* a round of Timeout(0) that started at time 1 runs out at time 2: the   *)
(* third tick fails and leaves the running child alone                     *)
C26_Witness ==
    \E n \in NodesOf("Timeout"), e \in Entities :
        /\ Arg(n) = 0 /\ ticks = 3 /\ now = 2
        /\ stores[e][n].startAt = 1
        /\ stores[e][Child(n, 0)].lastStatus = RUNNING
        /\ RetOf(n) # 0 /\ log[RetOf(n)].st = FAILURE
        /\ ~Ticked(RetOf(n), Child(n, 0))
        /\ log[ClockAt(n)].x = 2

(* C27: a tick of Delay(d) at time now, in a round that started at start:  *)
(* it returns RUNNING without ticking the child when now < start + d, and  *)
(* ticks the child once and returns its status when now >= start + d; a    *)
(* round that follows a SUCCESS or FAILURE of the Delay starts at the time *)
(* of its own first tick and waits d from there.                           *)
C27_DelayWaits ==
    [][ticks' = ticks + 1 =>
         \A n \in NodesOf("Delay") :
             RetOf(n)' # 0 =>
                 LET child == Child(n, 0)
                     start == StartOfRound(n, stores[treeBlob][n].firstRunAt)
                 IN /\ Entered(n)' <=> ~stores[treeBlob][n].running
                    /\ stores'[treeBlob][n].running => stores'[treeBlob][n].firstRunAt = start
                    /\ now < start + Arg(n) =>
                          /\ ~Ticked(RetOf(n), child)'
                          /\ log'[RetOf(n)'].st = RUNNING
                    /\ now >= start + Arg(n) =>
                          /\ TickedOnce(RetOf(n), child)'
                          /\ log'[RetOf(n)'].st = EndStatus(RetOf(n), child)'
                    /\ stores[treeBlob][n].lastStatus \in {SUCCESS, FAILURE}
                          => ~stores[treeBlob][n].running]_vars

(* Delay(1) after a finished round: the tick that starts the next round at *)
(* time 2 waits again                                                      *)
C27_Witness ==
    \E n \in NodesOf("Delay"), e \in Entities :
        /\ Arg(n) = 1 /\ ticks >= 3 /\ now = 2
        /\ Entered(n)
        /\ stores[e][n].firstRunAt = 2
        /\ stores[e][Child(n, 0)].lastStatus \in {SUCCESS, FAILURE}
        /\ RetOf(n) # 0 /\ log[RetOf(n)].st = RUNNING
        /\ ~Ticked(RetOf(n), Child(n, 0))


----------------------------------------------------------------------------
(* ForceSuccess and ForceFailure, read from the log                        *)

ForceRets == {k \in LogIdx : log[k].ev = "UpdateRet" /\ Kind(log[k].n) \in ForceKinds}
(* the returns of Update of d inside the Update that returned at k *)
UpdateRetsIn(k, d) == {j \in log[k].x..(k - 1) : log[j].ev = "UpdateRet" /\ log[j].n = d}
UpdatesIn(k, d) == {j \in log[k].x..k : log[j].ev = "Update" /\ log[j].n = d}

TickRecord(b) == <<b.running, b.lastStatus, b.lastSeq>>
ForceChildren == {d \in Nodes : IsForceChild(d)}

(* C29: a root tick never calls OnEnter or OnTerminate of the direct child *)
(* of a ForceSuccess or ForceFailure, and the child's blob record          *)
(* (running, lastStatus, lastSeq) is after the tick what it was before.    *)
C29_ForceBypassesChildTick ==
    [][ticks' = ticks + 1 =>
         \A d \in ForceChildren :
             /\ \A k \in DOMAIN log' :
                   log'[k].n = d => log'[k].ev \notin {"OnEnter", "OnTerminate", "Tick", "TickEnd"}
             /\ TickRecord(stores'[treeBlob][d]) = TickRecord(stores[treeBlob][d])]_vars

(* the child of a ForceSuccess has returned SUCCESS at seq 1 and its       *)
(* record is still the one of a node never ticked                          *)
C29_Witness ==
    \E d \in ForceChildren, e \in Entities :
        /\ lastUpdate[e][d].st = SUCCESS /\ lastUpdate[e][d].seq = 1
        /\ \E k \in LogIdx : log[k].ev = "UpdateRet" /\ log[k].n = d
        /\ TickRecord(stores[e][d]) = <<FALSE, UNDEFINED, 0>>


----------------------------------------------------------------------------
(* C30: after a tree has been built, the ids of the nodes reachable from   *)
(* the root are pairwise distinct and are exactly 1..NumNodes().           *)

Built == build.ended /\ build.err = ""

C30_IdsAreOneToNumNodes ==
    Built =>
        /\ Cardinality(BuiltIds(build)) = Cardinality(BuiltNodes(build))
        /\ BuiltIds(build) = 1..RootNumNodes(build)

----------------------------------------------------------------------------
(* The order the heap of q2 gives for the priorities p: every child index  *)
(* pushed in turn, then popped until the heap is empty.                    *)

RECURSIVE HeapFill(_, _, _)
HeapFill(c, i, p) == IF i = Len(p) THEN c ELSE HeapFill(HeapPush(c, i, p), i + 1, p)

RECURSIVE HeapDrain(_, _)
HeapDrain(c, p) == IF c = <<>> THEN <<>> ELSE <<c[1]>> \o HeapDrain(HeapPop(c, p), p)

HeapOrder(p) == HeapDrain(HeapFill(<<>>, 0, p), p)

(* the priorities an Update refreshed, by child index; every child was considered *)
PrioritiesAt(k) ==
    LET S == Considered(k) IN
    [i \in 1..NumKids(log[k].n) |-> S[CHOOSE j \in 1..Len(S) : S[j].x = i - 1].y]

AllConsideredEqual(k) ==
    LET S == Considered(k) IN
    /\ {S[j].x : j \in 1..Len(S)} = 0..(NumKids(log[k].n) - 1)
    /\ \A i, j \in 1..Len(S) : S[i].y = S[j].y

(* C31: when every child of a Sequence, Selector or Parallel is            *)
(* considerable and all priorities are equal, the flat queue is used and   *)
(* the children are visited in the order 0, 1, ..., n-1, which is the      *)
(* order the priority heap gives for the same priorities.                  *)
C31_FastPathIsHeapOrder ==
    \A k \in UpdatesOf({"Sequence", "Selector", "Parallel"}) :
        AllConsideredEqual(k) =>
            LET P == Pops(k)
                H == HeapOrder(PrioritiesAt(k))
            IN /\ AllEqualAt(k)
               /\ H = [i \in 1..NumKids(log[k].n) |-> i - 1]
               /\ \A i \in 1..Len(P) : P[i].x = i - 1 /\ P[i].x = H[i]

(* a Parallel of four children, all of priority 2 on this tick, visits     *)
(* all four through the flat queue                                         *)
C31_Witness ==
    \E k \in UpdatesOf({"Parallel"}) :
        /\ AllConsideredEqual(k) /\ AllEqualAt(k)
        /\ NumKids(log[k].n) = 4 /\ Len(Pops(k)) = 4
        /\ PrioritiesAt(k) = <<2, 2, 2, 2>>
        /\ stdlib = "libc++"

----------------------------------------------------------------------------
(* C32: a root Tick of a built tree with a tree blob bound never throws,   *)
(* whatever the leaves return and whatever priorities they report; the     *)
(* "outside q1 container" errors of Push and Clear do not occur.           *)
C32_TickNeverThrows ==
    \A k \in LogIdx : log[k].ev # "Throw"

(* the second tick of a stateful composite whose considerable children     *)
(* have equal priorities: Enqueue clears and fills the node's own          *)
(* q1Container, the path on which Clear and Push test the pointer q1       *)
C32_Witness ==
    /\ ticks >= 2
    /\ \E k \in UpdatesOf(StatefulKinds \ RandomKinds) :
          /\ AllEqualAt(k)
          /\ Len(Pops(k)) >= 1
          /\ queues[log[k].n].use1 /\ queues[log[k].n].q1 = "own"
          /\ Len(queues[log[k].n].q1Container) < NumKids(log[k].n)

----------------------------------------------------------------------------
(* Priority queries read from a log L: the value the last query of node c  *)
(* before position k returned, computed by Priority or taken from the memo *)

QueriesBefore(L, k, c) ==
    {j \in 1..(k - 1) : L[j].ev \in {"Priority", "Memo"} /\ L[j].n = c}

LastOf(S) == CHOOSE j \in S : \A i \in S : i <= j

QueryValue(L, k, c) == L[LastOf(QueriesBefore(L, k, c))].x

MaxOf(S) == IF S = {} THEN 0 ELSE CHOOSE x \in S : \A y \in S : y <= x

(* the children of n that are not skipped for the entity bound *)
ConsiderableKids(n) ==
    {i \in 0..(NumKids(n) - 1) : ~(IsStateful(n) /\ Skipped(treeBlob, n, i))}

(* the value Priority of the inner node n has to return at position k of L *)
ExpectedPriority(L, k, n) ==
    IF IsComposite(n)
    THEN MaxOf({QueryValue(L, k, Child(n, i)) : i \in ConsiderableKids(n)})
    ELSE QueryValue(L, k, Child(n, 0))

(* C33: Priority of a composite returns the maximum of the current-tick    *)
(* priorities of its considerable children, the children skipped for the   *)
(* bound entity left out, and Priority of a decorator returns its child's. *)
C33_PriorityOfInnerNodes ==
    [][(treeBlob # None /\ ticks' = ticks + 1) =>
          \A k \in LogIdx' :
              (log'[k].ev = "Priority" /\ Kind(log'[k].n) \notin LeafKinds) =>
                  /\ \A i \in (IF IsComposite(log'[k].n) THEN ConsiderableKids(log'[k].n) ELSE {0}) :
                        QueriesBefore(log', k, Child(log'[k].n, i)) # {}
                  /\ log'[k].x = ExpectedPriority(log', k, log'[k].n)]_vars

(* a StatefulSequence that skips its first child, of priority 2, reports   *)
(* the priority 1 of its second child                                      *)
C33_Witness ==
    \E k \in LogIdx :
        /\ log[k].ev = "Priority" /\ Kind(log[k].n) = "StatefulSequence"
        /\ log[k].x = 1
        /\ tree.pris[Child(log[k].n, 0)] = {2}
        /\ \E j \in LogIdx : log[j] = Ev("Tick", log[k].n, "-", 1)

----------------------------------------------------------------------------
(* the nodes below n *)
RECURSIVE Below(_, _)
Below(n, depth) ==
    IF depth = 0 THEN {}
    ELSE KidSet(n) \cup UNION {Below(c, depth - 1) : c \in KidSet(n)}

Descendants(n) == Below(n, N)

(* C34: when the Tick of a composite or decorator returns SUCCESS or       *)
(* FAILURE, no node below it is left with running = true in the blob of    *)
(* the entity ticked.                                                      *)
C34_NoDescendantLeftRunning ==
    [][(treeBlob # None /\ ticks' = ticks + 1) =>
          \A k \in LogIdx' :
              (/\ log'[k].ev = "TickEnd"
               /\ log'[k].st \in {SUCCESS, FAILURE}
               /\ Kind(log'[k].n) \notin LeafKinds \cup {"Root"}) =>
                  \A d \in Descendants(log'[k].n) : ~stores'[treeBlob][d].running]_vars

----------------------------------------------------------------------------
(* the weight Refresh gave child i in the Update that ends at k, 0 for a   *)
(* child that was not considerable                                         *)
WeightAt(k, i) ==
    IF i \in ConsideredSet(k) THEN (CHOOSE a \in ConsideredPairs(k) : a.x = i).y ELSE 0

RECURSIVE SumWeights(_, _)
SumWeights(k, S) ==
    IF S = {} THEN 0
    ELSE LET i == CHOOSE x \in S : TRUE IN WeightAt(k, i) + SumWeights(k, S \ {i})

(* the weight taken off total by the first j draws that failed *)
RECURSIVE TakenOff(_, _)
TakenOff(k, j) ==
    IF j = 0 THEN 0
    ELSE TakenOff(k, j - 1)
         + (IF ChildEnds(k)[j].st = FAILURE THEN WeightAt(k, Draws(k)[j].x) ELSE 0)

(* C35: an Update of a RandomSelector ticks at most n children, n the      *)
(* number of its children; the weight taken off total after the failures   *)
(* never exceeds the total it started from (no unsigned wrap-around).      *)
C35_RandomSelectorTerminates ==
    \A k \in UpdatesOf(RandomKinds) :
        /\ Len(Draws(k)) <= NumKids(log[k].n)
        /\ Len(ChildEnds(k)) = Len(Draws(k))
        /\ \A j \in 1..Len(Draws(k)) : TakenOff(k, j) <= SumWeights(k, ConsideredSet(k))

----------------------------------------------------------------------------
(* C36: in every tick of a Sequence, Selector or Parallel, stateful or     *)
(* not, each child is ticked at most once and only if it was considerable  *)
(* when the tick began; what an earlier tick left in either queue is never *)
(* ticked later, whichever queue the ticks use.                            *)
C36_NoStaleIndexTicked ==
    [][(treeBlob # None /\ ticks' = ticks + 1) =>
          \A n \in Nodes :
              \A k \in UpdatesOf(SequenceKinds \cup SelectorKinds \cup ParallelKinds)' :
                  log'[k].n = n =>
                      /\ OneAtATime(k)'
                      /\ TickedSet(k)' \subseteq ConsiderableKids(n)
                      /\ Len(Pops(k)') <= Cardinality(ConsiderableKids(n))]_vars

(* the third tick of a composite goes through the flat queue and stops     *)
(* early while the heap still holds indexes that an earlier tick left      *)
C36_Witness ==
    /\ ticks = 3
    /\ queues[2].use1
    /\ queues[2].q2 # <<>>
    /\ queues[2].q1Front > 0
    /\ queues[2].q1Front < Len(Q1(queues[2]))

----------------------------------------------------------------------------
(* C37: when an Update of a stateful composite begins, at least one child  *)
(* is not skipped for the entity bound, and the Update ticks at least one  *)
(* child.                                                                  *)
C37_SomeChildConsiderable ==
    [][(treeBlob # None /\ ticks' = ticks + 1) =>
          \A n \in Nodes :
              \A k \in UpdatesOf(StatefulKinds)' :
                  log'[k].n = n =>
                      /\ ConsiderableKids(n) # {}
                      /\ (\A a \in ConsideredPairs(k)' : a.y > 0) => ChildEnds(k)' # <<>>]_vars

----------------------------------------------------------------------------
(* C38: a FixedTreeBlob touches no slot index outside 0..NumNodes-1: a     *)
(* Make for a node id beyond NumNodes ends in the range error whatever     *)
(* lies behind buf, and every pointer Make returns points into the payload *)
(* of one of the NumNodes slots.                                           *)
C38_FixedSlotIndexInRange ==
    [][(made' # made /\ blob.backend = "fixed") =>
          /\ made'.id > NumNodes => made'.res = "error"
          /\ made'.res # "error" =>
                \E idx \in 0..(NumNodes - 1) : made'.p = FixedGet(idx)]_vars

----------------------------------------------------------------------------
(* the nodes on which the root tick the log holds made a call *)
TouchedNodes == {log[k].n : k \in LogIdx}

(* C39: a root Tick with the store of entity X bound creates or changes    *)
(* records in the store of X only, and there only the records of nodes it  *)
(* made a call on: getting the record of one node id leaves the existence  *)
(* and the contents of the record of every other id as they were.  No      *)
(* other step changes a store.                                             *)
C39_TickWritesBoundStoreOnly ==
    [][IF treeBlob # None /\ ticks' = ticks + 1
       THEN /\ \A e \in Entities \ {treeBlob} : stores'[e] = stores[e]
            /\ \A n \in Nodes \ TouchedNodes' : stores'[treeBlob][n] = stores[treeBlob][n]
       ELSE stores' = stores]_vars

(* a tree ticked for e1, where a child ended, and then for e2, where the   *)
(* same child is left RUNNING: the store of e2 has records of its own, and *)
(* a node that the tick for e2 did not reach has a record for e1 only      *)
C39_Witness ==
    /\ treeBlob = "e2" /\ ticks = 2
    /\ \E n \in Nodes :
          /\ stores["e1"][n].exist /\ ~stores["e1"][n].running
          /\ stores["e2"][n].exist /\ stores["e2"][n].running
    /\ \E n \in Nodes : stores["e1"][n].exist /\ ~stores["e2"][n].exist

----------------------------------------------------------------------------
(* the order the comment of InternalOnBuild states: a before b when a has  *)
(* the lower priority, or the same priority and the larger index           *)
LowerThenLater(p, a, b) == p[a + 1] < p[b + 1] \/ (p[a + 1] = p[b + 1] /\ a > b)

(* cmp over the priority vector p is a strict weak ordering, and it is the *)
(* order LowerThenLater                                                    *)
StrictWeak(p) ==
    LET I == 0..(Len(p) - 1) IN
    /\ \A a \in I : ~cmp(p, a, a)
    /\ \A a, b \in I : a # b => ~(cmp(p, a, b) /\ cmp(p, b, a))
    /\ \A a, b, c \in I : (cmp(p, a, b) /\ cmp(p, b, c)) => cmp(p, a, c)
    /\ \A a, b \in I : cmp(p, a, b) <=> LowerThenLater(p, a, b)

(* C40: the comparator of child indexes that InternalOnBuild installs for  *)
(* the priority heap is a strict weak ordering whatever priorities the     *)
(* vector p of the composite holds: irreflexive, asymmetric and            *)
(* transitive, with a before b exactly when a has the lower priority, or   *)
(* the same priority and the larger index.                                 *)
C40_CmpStrictWeakOrdering ==
    \A n \in Nodes :
        Kind(n) \in SequenceKinds \cup SelectorKinds \cup ParallelKinds =>
            StrictWeak(queues[n].p)

====
